---- MODULE Spec2Model ----
(***************************************************************************)
(* Model of the chatbot-study analysis pipeline                            *)
(* (src/analysis/phase*.py) and of its python service                      *)
(* (src/python-service).                                                   *)
(*                                                                         *)
(* Four specifications share the variables:                                *)
(*   Spec       the batch pipeline raw frame -> prepare_variables ->       *)
(*              compute_sample_flow -> the free-text functions;            *)
(*   SpecStats  one call of a statistics helper on an argument drawn from  *)
(*              a bounded set; helpers that use the random generator are   *)
(*              called a second time, in the generator state (rng) the     *)
(*              first call left;                                           *)
(*   SpecCsv    fetch_csv calls over time on the data directory (files)    *)
(*              and the clock (now);                                       *)
(*   SpecPdf    request handlers (handlers) that run                       *)
(*              download_and_extract_pdf at the same time, one step per    *)
(*              file operation.                                            *)
(*                                                                         *)
(* Value encodings                                                         *)
(*   nullable scalar : <<>> is None/NaN, <<v>> is the value v              *)
(*   rational        : <<num, den>> with den > 0, in lowest terms; floats  *)
(*                     of the program are modelled by exact rationals,     *)
(*                     except in wilson_ci                                 *)
(*   binary float    : <<m, e>> is m * 2^e, m odd or 0, MantissaBits wide, *)
(*                     rounded to nearest even (wilson_ci)                 *)
(*   root            : <<sign, square>> is sign * sqrt(square); Cramer's V *)
(*                     is carried as its square V2                         *)
(*   text            : [na |-> BOOLEAN, s |-> sequence of 1-char strings]  *)
(***************************************************************************)
EXTENDS Integers, Sequences, FiniteSets, TLC

VARIABLES pc, raw, df, flow, call, ret, rng, files, now, handlers

vars == <<pc, raw, df, flow, call, ret, rng, files, now, handlers>>

(***************************************************************************)
(* Bounds of the model                                                     *)
(***************************************************************************)
MaxRows == 3

\* grid of predicted percentages: 100 * k / PredSteps
PredSteps == 2

\* largest cell count of an enumerated contingency table
MaxCount == 2

\* longest enumerated free text, in characters
MaxTextLen == 3

\* longest enumerated keyword list of a theme
MaxKeywords == 2

\* mantissa width of the modelled floats, in bits
MantissaBits == 12

\* largest enumerated number of trials of a proportion
MaxTrials == 6

\* largest enumerated group of observations
MaxGroup == 3

\* largest enumerated number of parameters of a fitted model
MaxParams == 3

\* last day of the clock of the python service
MaxDays == 9

\* number of request handlers that run download_and_extract_pdf at a time
MaxHandlers == 2

\* largest enumerated number of votes of a dataset
MaxVotes == 3

(***************************************************************************)
(* Nullable values and text                                                *)
(***************************************************************************)
NA == <<>>

isna(x) == x = NA

Some(v) == <<v>>

Val(x) == x[1]

NullText == [na |-> TRUE, s |-> <<>>]

Text(s) == [na |-> FALSE, s |-> s]

UpperToLower ==
    [c \in {"A", "B", "C", "G", "I", "K", "N", "O", "R", "S", "T", "U", "V"} |->
        CASE c = "A" -> "a" [] c = "B" -> "b" [] c = "C" -> "c" [] c = "G" -> "g"
          [] c = "I" -> "i" [] c = "K" -> "k" [] c = "N" -> "n" [] c = "O" -> "o"
          [] c = "R" -> "r" [] c = "S" -> "s" [] c = "T" -> "t" [] c = "U" -> "u"
          [] c = "V" -> "v"]

\* str.lower on a sequence of characters
lower(s) ==
    [i \in 1..Len(s) |-> IF s[i] \in DOMAIN UpperToLower THEN UpperToLower[s[i]] ELSE s[i]]

(***************************************************************************)
(* Exact rational arithmetic                                               *)
(***************************************************************************)
Abs(x) == IF x < 0 THEN -x ELSE x

RECURSIVE GCD(_, _)
GCD(a, b) == IF b = 0 THEN a ELSE GCD(b, a % b)

Rat(n, d) ==
    LET g == GCD(Abs(n), Abs(d))
        s == IF d < 0 THEN -1 ELSE 1
    IN  <<(s * n) \div g, (s * d) \div g>>

RAdd(x, y) ==
    LET g == GCD(x[2], y[2])
    IN  Rat(x[1] * (y[2] \div g) + y[1] * (x[2] \div g), (x[2] \div g) * y[2])

RNeg(x) == <<-x[1], x[2]>>

RSub(x, y) == RAdd(x, RNeg(y))

RMul(x, y) ==
    LET a == Rat(x[1], y[2])
        b == Rat(y[1], x[2])
    IN  <<a[1] * b[1], a[2] * b[2]>>

RDiv(x, y) == RMul(x, Rat(y[2], y[1]))

RLess(x, y) == x[1] * y[2] < y[1] * x[2]

RAbs(x) == <<Abs(x[1]), x[2]>>

RMin(x, y) == IF RLess(y, x) THEN y ELSE x

RSign(x) == IF x[1] > 0 THEN 1 ELSE IF x[1] < 0 THEN -1 ELSE 0

RECURSIVE SumSeq(_)
SumSeq(s) == IF s = <<>> THEN 0 ELSE s[1] + SumSeq(Tail(s))

(***************************************************************************)
(* AnalysisConfig                                                          *)
(***************************************************************************)
CONDITIONS == <<"A", "B", "C", "D">>

TRANSPARENCY_MAP == [c \in {"A", "B", "C", "D"} |-> IF c \in {"B", "D"} THEN 1 ELSE 0]

CONTROL_MAP == [c \in {"A", "B", "C", "D"} |-> IF c \in {"C", "D"} THEN 1 ELSE 0]

ATTENTION_CHECK_CORRECT == <<"v", "o", "t", "i", "n", "g">>

(***************************************************************************)
(* prepare_variables                                                       *)
(***************************************************************************)
\* Series.map(dict) on one nullable label: a label that is no key gives NaN
map(x, m) == IF ~isna(x) /\ Val(x) \in DOMAIN m THEN Some(m[Val(x)]) ELSE NA

\* the levels are added instead of multiplied
Mutant_mul_sum(x, y) == IF isna(x) \/ isna(y) THEN NA ELSE Some(Val(x) + Val(y))

\* product of two nullable numbers, NaN-propagating
mul(x, y) == IF isna(x) \/ isna(y) THEN NA ELSE Some(Val(x) * Val(y))

\* the mean with skipna=False: one missing item makes the composite missing
Mutant_mean_no_skipna(a, b) ==
    IF isna(a) \/ isna(b) THEN NA ELSE Rat(Val(a) + Val(b), 2)

\* DataFrame.mean(axis=1) over two item columns, skipna: the mean of the present
\* values as a rational, NaN when both are missing
mean(a, b) ==
    LET present == SelectSeq(<<a, b>>, LAMBDA v : ~isna(v))
    IN  IF present = <<>> THEN NA
        ELSE Rat(SumSeq([i \in 1..Len(present) |-> Val(present[i])]), Len(present))

\* (attention_check.str.lower() == ATTENTION_CHECK_CORRECT.lower()).astype(int)
attention_check_correct(answer) ==
    IF ~answer.na /\ lower(answer.s) = lower(ATTENTION_CHECK_CORRECT) THEN 1 ELSE 0

\* keys of the dashboard configuration read by prepare_variables
DashboardKeys == {"scope", "purpose", "storage", "retention"}

EmptyDict == [k \in DashboardKeys |-> NA]

Dict(d) == [t |-> "dict", d |-> d]

NonDict(t) == [t |-> t, d |-> EmptyDict]

\* json.loads on the configuration strings of the model: the parsed Python value,
\* or JSONDecodeError
json_loads(s) ==
    CASE s = "{\"scope\": \"topics-only\"}" ->
            Dict([EmptyDict EXCEPT !["scope"] = Some("topics-only")])
      [] s = "{\"scope\": \"full\", \"purpose\": \"academic\", \"storage\": \"swiss\", \"retention\": \"1month\"}" ->
            Dict([scope |-> Some("full"), purpose |-> Some("academic"),
                  storage |-> Some("swiss"), retention |-> Some("1month")])
      [] s = "{}" -> Dict(EmptyDict)
      [] s = "[1, 2]" -> NonDict("list")
      [] s = "5" -> NonDict("int")
      [] s = "null" -> NonDict("NoneType")
      [] s = "\"full\"" -> NonDict("str")
      [] OTHER -> NonDict("JSONDecodeError")

\* parse_dashboard_config: the raw field is [t |-> "NoneType" | "dict" | "str", ...]
parse_dashboard_config(config_json) ==
    IF config_json.t = "NoneType" THEN Dict(EmptyDict)
    ELSE IF config_json.t = "str"
         THEN LET v == json_loads(config_json.s)
              IN  IF v.t = "JSONDecodeError" THEN Dict(EmptyDict) ELSE v
         ELSE IF config_json.t = "dict" THEN Dict(config_json.d) ELSE Dict(EmptyDict)

\* x.get(key) of the lambdas: only a dict has .get
HasGet(x) == x.t = "dict"

get(x, key) == x.d[key]

\* the derived row of one raw row (all column assignments of prepare_variables)
derive(r) ==
    LET T == map(r.condition, TRANSPARENCY_MAP)
        C == map(r.condition, CONTROL_MAP)
        parsed == parse_dashboard_config(r.donation_config)
    IN  [id |-> r.id,
         condition |-> r.condition,
         donation_decision |-> r.donation_decision,
         attention_check |-> r.attention_check,
         donation_config |-> r.donation_config,
         open_feedback |-> r.open_feedback,
         transparency1 |-> r.transparency1, transparency2 |-> r.transparency2,
         control1 |-> r.control1, control2 |-> r.control2,
         risk_traceability |-> r.risk_traceability, risk_misuse |-> r.risk_misuse,
         transparency_level |-> T,
         control_level |-> C,
         T_x_C |-> mul(T, C),
         mc_transparency |-> mean(r.transparency1, r.transparency2),
         mc_control |-> mean(r.control1, r.control2),
         out_risk |-> mean(r.risk_traceability, r.risk_misuse),
         attention_check_correct |-> attention_check_correct(r.attention_check),
         dashboard_parsed |-> parsed,
         dashboard_scope |-> IF HasGet(parsed) THEN get(parsed, "scope") ELSE NA,
         dashboard_purpose |-> IF HasGet(parsed) THEN get(parsed, "purpose") ELSE NA,
         dashboard_storage |-> IF HasGet(parsed) THEN get(parsed, "storage") ELSE NA,
         dashboard_retention |-> IF HasGet(parsed) THEN get(parsed, "retention") ELSE NA]

\* prepare_variables raises AttributeError when some parsed configuration has no .get
prepare_raises(frame) ==
    \E i \in 1..Len(frame) : ~HasGet(parse_dashboard_config(frame[i].donation_config))

prepare_variables(frame) == [i \in 1..Len(frame) |-> derive(frame[i])]

\* the columns are assigned to the frame passed in
Mutant_prepare_variables_df_in_place(frame) ==
    IF prepare_raises(frame) THEN frame ELSE prepare_variables(frame)

\* the caller's frame after the call: df = df.copy() rebinds the local name, every
\* assignment goes to the copy
prepare_variables_df(frame) == frame

(***************************************************************************)
(* compute_sample_flow                                                     *)
(***************************************************************************)
\* ids of the rows of a frame on which a boolean mask is true
MaskIds(frame, mask) == {frame[i].id : i \in {j \in 1..Len(frame) : mask[j]}}

Keep(frame, ids) == SelectSeq(frame, LAMBDA r : r.id \notin ids)

\* the boolean masks, one entry per row of the frame they are taken on
failed_attention(frame) == [i \in 1..Len(frame) |-> frame[i].attention_check_correct = 0]

missing_condition(frame) == [i \in 1..Len(frame) |-> isna(frame[i].condition)]

missing_donation(frame) == [i \in 1..Len(frame) |-> isna(frame[i].donation_decision)]

\* steps applied out of order: each mask is taken on the whole input frame
Mutant_sample_flow_steps_unchained(frame) ==
    LET m1 == MaskIds(frame, failed_attention(frame))
        m2 == MaskIds(frame, missing_condition(frame))
        m3 == MaskIds(frame, missing_donation(frame))
    IN  [failed_attention |-> m1, missing_condition |-> m2, missing_donation |-> m3,
         df_filtered |-> Keep(frame, m1 \cup m2 \cup m3)]

\* the missing-donation step left out
Mutant_sample_flow_steps_no_donation(frame) ==
    LET m1 == MaskIds(frame, failed_attention(frame))
        step1 == Keep(frame, m1)
        m2 == MaskIds(step1, missing_condition(step1))
        step2 == Keep(step1, m2)
    IN  [failed_attention |-> m1, missing_condition |-> m2, missing_donation |-> {},
         df_filtered |-> step2]

\* the missing-donation step taken first
Mutant_sample_flow_steps_reordered(frame) ==
    LET m3 == MaskIds(frame, missing_donation(frame))
        step1 == Keep(frame, m3)
        m1 == MaskIds(step1, failed_attention(step1))
        step2 == Keep(step1, m1)
        m2 == MaskIds(step2, missing_condition(step2))
        step3 == Keep(step2, m2)
    IN  [failed_attention |-> m1, missing_condition |-> m2, missing_donation |-> m3,
         df_filtered |-> step3]

\* the three exclusion steps: the local masks (as sets of row ids) and the frame left
sample_flow_steps(frame) ==
    LET m1 == MaskIds(frame, failed_attention(frame))
        step1 == Keep(frame, m1)
        m2 == MaskIds(step1, missing_condition(step1))
        step2 == Keep(step1, m2)
        m3 == MaskIds(step2, missing_donation(step2))
        step3 == Keep(step2, m3)
    IN  [failed_attention |-> m1, missing_condition |-> m2, missing_donation |-> m3,
         df_filtered |-> step3]

compute_sample_flow(frame) ==
    LET steps == sample_flow_steps(frame)
    IN  [initial_n |-> Len(frame),
         excluded_attention |-> Cardinality(steps.failed_attention),
         excluded_missing_condition |-> Cardinality(steps.missing_condition),
         excluded_missing_donation |-> Cardinality(steps.missing_donation),
         final_n |-> Len(steps.df_filtered),
         df_filtered |-> steps.df_filtered]

(***************************************************************************)
(* scipy.stats.chi2_contingency on a table of counts (a sequence of rows)  *)
(***************************************************************************)
NRows(t) == Len(t)

NCols(t) == Len(t[1])

RowSum(t, i) == SumSeq(t[i])

ColSum(t, j) == SumSeq([i \in 1..NRows(t) |-> t[i][j]])

TableSum(t) == SumSeq([i \in 1..NRows(t) |-> RowSum(t, i)])

RECURSIVE RSumSeq(_)
RSumSeq(s) == IF s = <<>> THEN <<0, 1>> ELSE RAdd(s[1], RSumSeq(Tail(s)))

\* expected_freq: product of the margins over the total (defined for a total > 0)
expected_freq(t) ==
    [i \in 1..NRows(t) |-> [j \in 1..NCols(t) |->
        Rat(RowSum(t, i) * ColSum(t, j), TableSum(t))]]

\* Yates' correction (dof = 1): each observed count moves towards its expected
\* value by min(0.5, |expected - observed|)
yates(o, e) ==
    LET diff == RSub(e, o)
        magnitude == RMin(<<1, 2>>, RAbs(diff))
    IN  RAdd(o, RMul(magnitude, <<RSign(diff), 1>>))

\* power_divergence with lambda_ = 1: sum of (observed - expected)^2 / expected
pearson(t, e, correction) ==
    RSumSeq([k \in 1..(NRows(t) * NCols(t)) |->
        LET i == ((k - 1) \div NCols(t)) + 1
            j == ((k - 1) % NCols(t)) + 1
            o == IF correction THEN yates(<<t[i][j], 1>>, e[i][j]) ELSE <<t[i][j], 1>>
            d == RSub(o, e[i][j])
        IN  RDiv(RMul(d, d), e[i][j])])

\* chi2_contingency(observed)[0] and the dof; the p-value (a chi-square tail
\* probability) is not modelled.  A zero total makes every expected frequency 0/0 =
\* NaN, which is not "== 0", and the statistic is NaN; a zero margin with a positive
\* total makes an expected frequency 0 and raises ValueError.
chi2_contingency(t) ==
    LET dof == NRows(t) * NCols(t) - (NRows(t) + NCols(t)) + 2 - 1
    IN  IF TableSum(t) = 0
        THEN [raised |-> FALSE, nan |-> dof # 0, chi2 |-> <<0, 1>>, dof |-> dof]
        ELSE IF \/ \E i \in 1..NRows(t) : RowSum(t, i) = 0
                \/ \E j \in 1..NCols(t) : ColSum(t, j) = 0
        THEN [raised |-> TRUE, nan |-> FALSE, chi2 |-> <<0, 1>>, dof |-> 0]
        ELSE IF dof = 0
        THEN [raised |-> FALSE, nan |-> FALSE, chi2 |-> <<0, 1>>, dof |-> dof]
        ELSE [raised |-> FALSE, nan |-> FALSE,
              chi2 |-> pearson(t, expected_freq(t), dof = 1), dof |-> dof]

Min(a, b) == IF a < b THEN a ELSE b

(***************************************************************************)
(* Cramer's V.  A returned V >= 0 is represented by its square V2, so that *)
(* V < 0.1 reads V2 < 1/100.                                               *)
(***************************************************************************)
Raised == [raised |-> TRUE, V2 |-> <<0, 1>>, interpretation |-> ""]

\* the bands of the phi coefficient (0.1, 0.3, 0.5) used for Cramer's V
Mutant_interpret_cramers_v_phi_bands(V2) ==
    IF RLess(V2, <<1, 100>>) THEN "negligible"
    ELSE IF RLess(V2, <<9, 100>>) THEN "small"
    ELSE IF RLess(V2, <<25, 100>>) THEN "medium"
    ELSE "large"

\* band of an effect size given by its square
interpret_cramers_v(V2) ==
    IF RLess(V2, <<1, 100>>) THEN "negligible"
    ELSE IF RLess(V2, <<4, 100>>) THEN "small"
    ELSE IF RLess(V2, <<16, 100>>) THEN "medium"
    ELSE "large"

\* V = sqrt(chi2 / n), without the min(r - 1, c - 1) of the denominator
Mutant_cramers_v_no_min_dim(t) ==
    LET c == chi2_contingency(t)
        n == TableSum(t)
        min_dim == Min(NRows(t) - 1, NCols(t) - 1)
    IN  IF c.raised THEN Raised
        ELSE IF min_dim = 0 \/ n = 0
        THEN [raised |-> FALSE, V2 |-> <<0, 1>>, interpretation |-> ""]
        ELSE [raised |-> FALSE, V2 |-> RDiv(c.chi2, <<n, 1>>), interpretation |-> ""]

\* phase 2: the statistic is computed before the degenerate cases are tested
cramers_v(t) ==
    LET c == chi2_contingency(t)
        n == TableSum(t)
        min_dim == Min(NRows(t) - 1, NCols(t) - 1)
    IN  IF c.raised THEN Raised
        ELSE IF min_dim = 0 \/ n = 0
        THEN [raised |-> FALSE, V2 |-> <<0, 1>>, interpretation |-> ""]
        ELSE [raised |-> FALSE, V2 |-> RDiv(c.chi2, <<n * min_dim, 1>>),
              interpretation |-> ""]

\* phase 6: returns (V, interpretation)
cramers_v_6(t) ==
    LET c == chi2_contingency(t)
        n == TableSum(t)
        min_dim == Min(NRows(t), NCols(t)) - 1
        V2 == IF n * min_dim > 0 THEN RDiv(c.chi2, <<n * min_dim, 1>>) ELSE <<0, 1>>
    IN  IF c.raised THEN Raised
        ELSE [raised |-> FALSE, V2 |-> V2, interpretation |-> interpret_cramers_v(V2)]

(***************************************************************************)
(* chi_square_test on a frame given by its counts per group and outcome:   *)
(* counts[g] = <<rows with outcome 0, rows with outcome 1>> for the g-th   *)
(* label of groups (sorted).  The bootstrap interval, the Wilson intervals *)
(* and the p-value are not modelled.                                       *)
(***************************************************************************)
\* pd.crosstab: only labels and outcomes that occur in the frame make a row / column
crosstab_index(counts) == SelectSeq([g \in 1..Len(counts) |-> g],
                                    LAMBDA g : counts[g][1] + counts[g][2] > 0)

crosstab_columns(counts) ==
    SelectSeq(<<1, 2>>, LAMBDA o : \E g \in 1..Len(counts) : counts[g][o] > 0)

crosstab(counts) ==
    LET idx == crosstab_index(counts)
        cols == crosstab_columns(counts)
    IN  [i \in 1..Len(idx) |-> [j \in 1..Len(cols) |-> counts[idx[i]][cols[j]]]]

ChiRaised == [raised |-> TRUE, chi2 |-> <<0, 1>>, df |-> 0, cramers_v |-> <<0, 1>>,
              donation_rates |-> <<>>, effect |-> ""]

chi_square_test(groups, counts) ==
    LET idx == crosstab_index(counts)
        contingency == crosstab(counts)
    IN  IF idx = <<>> THEN ChiRaised                 \* chi2_contingency: no data
        ELSE IF chi2_contingency(contingency).raised THEN ChiRaised
        ELSE IF NCols(contingency) # 2 THEN ChiRaised \* columns = [two labels]
        ELSE [raised |-> FALSE,
              chi2 |-> chi2_contingency(contingency).chi2,
              df |-> chi2_contingency(contingency).dof,
              cramers_v |-> cramers_v(contingency).V2,
              donation_rates |->
                  [i \in 1..Len(idx) |->
                      LET n == counts[idx[i]][1] + counts[idx[i]][2]
                          donations == counts[idx[i]][2]
                      IN  [Group |-> groups[idx[i]], n |-> n, Donations |-> donations,
                           Rate |-> RMul(Rat(donations, n), <<100, 1>>)]],
              effect |-> ""]

(***************************************************************************)
(* interpret_interaction (phase 4)                                         *)
(***************************************************************************)
ALPHA == <<5, 100>>

\* the threshold is compared with a difference of probabilities on [0, 1]
interpret_interaction(pred_df, p_interaction) ==
    LET p_a == Rat(pred_df["A"], 100)
        p_b == Rat(pred_df["B"], 100)
        p_c == Rat(pred_df["C"], 100)
        p_d == Rat(pred_df["D"], 100)
        effect_t_at_c0 == RSub(p_b, p_a)
        effect_t_at_c1 == RSub(p_d, p_c)
        interaction_effect == RSub(effect_t_at_c1, effect_t_at_c0)
        pattern == IF RLess(<<5, 1>>, interaction_effect) THEN "synergistic"
                   ELSE IF RLess(interaction_effect, <<-5, 1>>) THEN "antagonistic"
                   ELSE "additive"
        interaction_significant == RLess(p_interaction, ALPHA)
        h3_result == IF interaction_significant /\ RLess(<<0, 1>>, interaction_effect)
                     THEN "SUPPORTED"
                     ELSE IF interaction_significant /\ RLess(interaction_effect, <<0, 1>>)
                     THEN "NOT SUPPORTED (antagonistic)"
                     ELSE "NOT SUPPORTED"
    IN  [pattern |-> pattern, interaction_magnitude |-> interaction_effect,
         p_interaction |-> p_interaction, h3_result |-> h3_result]

(***************************************************************************)
(* Theme coder (phase 6)                                                   *)
(***************************************************************************)
THEME_CODEBOOK ==
    <<[theme |-> "transparency",
       keywords |-> <<<<"t", "r", "a", "n", "s", "p", "a", "r", "e", "n", "t">>,
                      <<"c", "l", "e", "a", "r">>,
                      <<"u", "n", "d", "e", "r", "s", "t", "a", "n", "d">>,
                      <<"k", "n", "o", "w">>,
                      <<"i", "n", "f", "o", "r", "m", "a", "t", "i", "o", "n">>,
                      <<"e", "x", "p", "l", "a", "i", "n">>,
                      <<"d", "i", "s", "c", "l", "o", "s", "u", "r", "e">>>>],
      [theme |-> "control",
       keywords |-> <<<<"c", "o", "n", "t", "r", "o", "l">>,
                      <<"c", "h", "o", "i", "c", "e">>,
                      <<"c", "h", "o", "o", "s", "e">>,
                      <<"d", "e", "c", "i", "d", "e">>,
                      <<"o", "p", "t", "i", "o", "n">>,
                      <<"c", "o", "n", "f", "i", "g", "u", "r", "e">>,
                      <<"g", "r", "a", "n", "u", "l", "a", "r">>>>],
      [theme |-> "anonymity",
       keywords |-> <<<<"a", "n", "o", "n", "y", "m", "o", "u", "s">>,
                      <<"a", "n", "o", "n", "y", "m", "i", "t", "y">>,
                      <<"i", "d", "e", "n", "t", "i", "t", "y">>,
                      <<"p", "e", "r", "s", "o", "n", "a", "l">>,
                      <<"i", "d", "e", "n", "t", "i", "f", "i", "a", "b", "l", "e">>,
                      <<"p", "r", "i", "v", "a", "t", "e">>>>],
      [theme |-> "risk",
       keywords |-> <<<<"r", "i", "s", "k">>,
                      <<"d", "a", "n", "g", "e", "r">>,
                      <<"u", "n", "s", "a", "f", "e">>,
                      <<"c", "o", "n", "c", "e", "r", "n">>,
                      <<"w", "o", "r", "r", "y">>,
                      <<"a", "f", "r", "a", "i", "d">>,
                      <<"m", "i", "s", "u", "s", "e">>>>],
      [theme |-> "purpose",
       keywords |-> <<<<"p", "u", "r", "p", "o", "s", "e">>,
                      <<"r", "e", "s", "e", "a", "r", "c", "h">>,
                      <<"a", "c", "a", "d", "e", "m", "i", "c">>,
                      <<"s", "c", "i", "e", "n", "c", "e">>,
                      <<"c", "o", "m", "m", "e", "r", "c", "i", "a", "l">>,
                      <<"p", "r", "o", "f", "i", "t">>>>],
      [theme |-> "storage",
       keywords |-> <<<<"s", "t", "o", "r", "a", "g", "e">>,
                      <<"s", "t", "o", "r", "e">>,
                      <<"s", "e", "r", "v", "e", "r">>,
                      <<"s", "w", "i", "t", "z", "e", "r", "l", "a", "n", "d">>,
                      <<"l", "o", "c", "a", "l">>,
                      <<"l", "o", "c", "a", "t", "i", "o", "n">>,
                      <<"w", "h", "e", "r", "e">>>>],
      [theme |-> "retention",
       keywords |-> <<<<"d", "e", "l", "e", "t", "e">>,
                      <<"r", "e", "t", "a", "i", "n">>,
                      <<"k", "e", "e", "p">>,
                      <<"t", "i", "m", "e">>,
                      <<"d", "u", "r", "a", "t", "i", "o", "n">>,
                      <<"p", "e", "r", "m", "a", "n", "e", "n", "t">>,
                      <<"t", "e", "m", "p", "o", "r", "a", "r", "y">>>>],
      [theme |-> "trust",
       keywords |-> <<<<"t", "r", "u", "s", "t">>,
                      <<"b", "e", "l", "i", "e", "v", "e">>,
                      <<"r", "e", "l", "i", "a", "b", "l", "e">>,
                      <<"c", "r", "e", "d", "i", "b", "l", "e">>,
                      <<"h", "o", "n", "e", "s", "t">>,
                      <<"t", "r", "u", "s", "t", "w", "o", "r", "t", "h", "y">>>>],
      [theme |-> "civic",
       keywords |-> <<<<"c", "i", "v", "i", "c">>,
                      <<"c", "i", "t", "i", "z", "e", "n">>,
                      <<"d", "e", "m", "o", "c", "r", "a", "c", "y">>,
                      <<"v", "o", "t", "e">>,
                      <<"p", "u", "b", "l", "i", "c">>,
                      <<"s", "o", "c", "i", "e", "t", "y">>,
                      <<"b", "e", "n", "e", "f", "i", "t">>>>],
      [theme |-> "general_privacy",
       keywords |-> <<<<"p", "r", "i", "v", "a", "c", "y">>,
                      <<"d", "a", "t", "a", " ", "p", "r", "o", "t", "e", "c", "t", "i", "o", "n">>,
                      <<"g", "d", "p", "r">>,
                      <<"s", "e", "n", "s", "i", "t", "i", "v", "e">>>>]>>

\* keyword in text_lower: the keyword occurs at some offset of the text
contains(keyword, text) ==
    \E i \in 0..(Len(text) - Len(keyword)) : SubSeq(text, i + 1, i + Len(keyword)) = keyword

\* str.strip(): leading and trailing blanks removed
RECURSIVE lstrip(_)
lstrip(s) == IF s # <<>> /\ Head(s) = " " THEN lstrip(Tail(s)) ELSE s

RECURSIVE rstrip(_)
rstrip(s) == IF s # <<>> /\ s[Len(s)] = " " THEN rstrip(SubSeq(s, 1, Len(s) - 1)) ELSE s

strip(s) == rstrip(lstrip(s))

\* the inner loop without its break: one append per matching keyword
RECURSIVE Mutant_scan_keywords_no_break(_, _, _, _)
Mutant_scan_keywords_no_break(theme, keywords, text_lower, themes_found) ==
    IF keywords = <<>> THEN themes_found
    ELSE Mutant_scan_keywords_no_break(theme, Tail(keywords), text_lower,
            IF contains(Head(keywords), text_lower)
            THEN Append(themes_found, theme) ELSE themes_found)

\* the inner loop: the theme is appended at its first matching keyword, then break
RECURSIVE scan_keywords(_, _, _, _)
scan_keywords(theme, keywords, text_lower, themes_found) ==
    IF keywords = <<>> THEN themes_found
    ELSE IF contains(Head(keywords), text_lower) THEN Append(themes_found, theme)
    ELSE scan_keywords(theme, Tail(keywords), text_lower, themes_found)

\* the outer loop over codebook.items(), in insertion order
RECURSIVE scan_codebook(_, _, _)
scan_codebook(codebook, text_lower, themes_found) ==
    IF codebook = <<>> THEN themes_found
    ELSE scan_codebook(Tail(codebook), text_lower,
            scan_keywords(Head(codebook).theme, Head(codebook).keywords,
                          text_lower, themes_found))

\* the text matched as written, not lower-cased
Mutant_code_themes_no_lower(text, codebook) ==
    IF text.na \/ strip(text.s) = <<>> THEN <<>>
    ELSE scan_codebook(codebook, text.s, <<>>)

\* the result returned at the first theme found
Mutant_code_themes_first_only(text, codebook) ==
    IF text.na \/ strip(text.s) = <<>> THEN <<>>
    ELSE LET found == scan_codebook(codebook, lower(text.s), <<>>)
         IN  IF found = <<>> THEN <<>> ELSE <<found[1]>>

code_themes(text, codebook) ==
    IF text.na \/ strip(text.s) = <<>> THEN <<>>
    ELSE scan_codebook(codebook, lower(text.s), <<>>)

WorriedText == <<"I", " ", "a", "m", " ", "w", "o", "r", "r", "i", "e", "d", " ", "a", "b", "o", "u", "t", " ", "p", "r", "i", "v", "a", "c", "y", " ", "a", "n", "d", " ", "c", "o", "n", "t", "r", "o", "l">>

UncontrolledText == <<"U", "n", "c", "o", "n", "t", "r", "o", "l", "l", "e", "d", " ", "R", "I", "S", "K">>

WorryText == <<"I", " ", "w", "o", "r", "r", "y", " ", "a", "b", "o", "u", "t", " ", "i", "t">>

BlankText == <<" ", " ">>

VoteText == <<"V", "o", "t", "e">>

(***************************************************************************)
(* Binary floating point (wilson_ci).  A float is <<m, e>>, the number     *)
(* m * 2^e, with m = 0 = e or m odd, and |m| < 2^MantissaBits.  Each       *)
(* operation returns the exact result rounded to the nearest float, ties   *)
(* to even, as the program's IEEE 754 doubles do with 53 mantissa bits.    *)
(***************************************************************************)
RECURSIVE BitLen(_)
BitLen(n) == IF n = 0 THEN 0 ELSE 1 + BitLen(n \div 2)

RECURSIVE Canon(_, _)
Canon(m, e) ==
    IF m = 0 THEN <<0, 0>> ELSE IF m % 2 = 0 THEN Canon(m \div 2, e + 1) ELSE <<m, e>>

\* the float nearest to a number in [n * 2^e, (n + 1) * 2^e), n >= 0, which
\* is n * 2^e itself unless sticky
RoundMag(n, e, sticky) ==
    LET s == BitLen(n) - MantissaBits
    IN  IF s <= 0 THEN Canon(n, e)
        ELSE LET q == n \div 2^s
                 r == n % 2^s
                 h == 2^(s - 1)
                 up == r > h \/ (r = h /\ (sticky \/ q % 2 = 1))
             IN  Canon(IF up THEN q + 1 ELSE q, e + s)

Sign(n) == IF n > 0 THEN 1 ELSE IF n < 0 THEN -1 ELSE 0

Signed(s, f) == <<s * f[1], f[2]>>

\* one more than the position of the leading bit of m * 2^e
Top(a) == BitLen(Abs(a[1])) + a[2]

\* sign of a - b, exactly, for any two numbers m * 2^e
Cmp(a, b) ==
    IF Sign(a[1]) # Sign(b[1]) THEN Sign(Sign(a[1]) - Sign(b[1]))
    ELSE IF a[1] = 0 THEN 0
    ELSE IF Top(a) # Top(b) THEN Sign(a[1]) * Sign(Top(a) - Top(b))
    ELSE LET e == IF a[2] < b[2] THEN a[2] ELSE b[2]
         IN  Sign(a[1] * 2^(a[2] - e) - b[1] * 2^(b[2] - e))

FLess(a, b) == Cmp(a, b) < 0

FLessEq(a, b) == Cmp(a, b) <= 0

FZero == <<0, 0>>

FInt(n) == Signed(Sign(n), RoundMag(Abs(n), 0, FALSE))

FNeg(a) == <<-a[1], a[2]>>

FAdd(a, b) ==
    IF a[1] = 0 THEN b
    ELSE IF b[1] = 0 THEN a
    ELSE IF Top(a) - Top(b) > MantissaBits + 2 THEN a
    ELSE IF Top(b) - Top(a) > MantissaBits + 2 THEN b
    ELSE LET e == IF a[2] < b[2] THEN a[2] ELSE b[2]
             n == a[1] * 2^(a[2] - e) + b[1] * 2^(b[2] - e)
         IN  Signed(Sign(n), RoundMag(Abs(n), e, FALSE))

FSub(a, b) == FAdd(a, FNeg(b))

FMul(a, b) == Signed(Sign(a[1]) * Sign(b[1]), RoundMag(Abs(a[1] * b[1]), a[2] + b[2], FALSE))

\* a / b for b # 0: the quotient is taken to MantissaBits + 2 bits or more
FDiv(a, b) ==
    LET k == 2 * MantissaBits + 2 - BitLen(Abs(a[1]))
        n == Abs(a[1]) * 2^k
    IN  Signed(Sign(a[1]) * Sign(b[1]),
               RoundMag(n \div Abs(b[1]), a[2] - k - b[2], n % Abs(b[1]) # 0))

RECURSIVE Isqrt(_)
Isqrt(n) ==
    IF n < 2 THEN n
    ELSE LET s == 2 * Isqrt(n \div 4)
         IN  IF (s + 1) * (s + 1) <= n THEN s + 1 ELSE s

\* np.sqrt(a) for a >= 0: the root is taken to MantissaBits + 1 bits or more
FSqrt(a) ==
    LET k0 == 2 * MantissaBits + 3 - BitLen(a[1])
        k == IF (a[2] - k0) % 2 = 0 THEN k0 ELSE k0 - 1
        n == a[1] * 2^k
        r == Isqrt(n)
    IN  RoundMag(r, (a[2] - k) \div 2, r * r # n)

\* max(x, y) and min(x, y) of Python: the first argument unless the second
\* is strictly larger (smaller)
FMax(a, b) == IF FLess(a, b) THEN b ELSE a

FMin(a, b) == IF FLess(b, a) THEN b ELSE a

(***************************************************************************)
(* wilson_ci (phase 1), with the default alpha = 0.05                      *)
(***************************************************************************)
\* z = stats.norm.ppf(1 - alpha / 2) = 1.959963984540054; the float nearest
\* to it is the float nearest to 1.96 at the precision of the model
norm_ppf == FDiv(FInt(49), FInt(25))

wilson_ci(successes, n) ==
    IF n = 0 THEN <<FZero, FZero>>
    ELSE LET p == FDiv(FInt(successes), FInt(n))
             z == norm_ppf
             z2 == FMul(z, z)
             denominator == FAdd(FInt(1), FDiv(z2, FInt(n)))
             centre == FAdd(p, FDiv(z2, FInt(2 * n)))
             margin == FMul(z, FSqrt(FDiv(FAdd(FMul(p, FSub(FInt(1), p)),
                                               FDiv(z2, FInt(4 * n))),
                                          FInt(n))))
             lower_ == FDiv(FSub(centre, margin), denominator)
             upper_ == FDiv(FAdd(centre, margin), denominator)
         IN  <<FMax(FZero, lower_), FMin(FInt(1), upper_)>>

(***************************************************************************)
(* Effect sizes of phase 3.  A returned quotient x / sqrt(y) is            *)
(* represented by its sign and its square, <<sign, x^2 / y>>.              *)
(***************************************************************************)
SignedRoot(sign, square) == <<sign, square>>

RootZero == SignedRoot(0, <<0, 1>>)

\* the bands of |phi|: 0.1, 0.3, 0.5
interpret_phi(phi) ==
    IF RLess(phi[2], <<1, 100>>) THEN "negligible"
    ELSE IF RLess(phi[2], <<9, 100>>) THEN "small"
    ELSE IF RLess(phi[2], <<25, 100>>) THEN "medium"
    ELSE "large"

\* contingency_table[0, 1] and contingency_table[1, 0] raise IndexError on a
\* table with one column or one row
phi_coefficient(t) ==
    IF NRows(t) < 2 \/ NCols(t) < 2
    THEN [raised |-> TRUE, phi |-> RootZero, interpretation |-> ""]
    ELSE LET a == t[1][1]
             b == t[1][2]
             c == t[2][1]
             d == t[2][2]
             numerator == (a * d) - (b * c)
             denominator2 == (a + b) * (c + d) * (a + c) * (b + d)
             phi == IF denominator2 > 0
                    THEN SignedRoot(Sign(numerator), Rat(numerator * numerator, denominator2))
                    ELSE RootZero
         IN  [raised |-> FALSE, phi |-> phi, interpretation |-> interpret_phi(phi)]

\* group.mean(): NaN on an empty group
np_mean(g) == IF Len(g) = 0 THEN NA ELSE Some(Rat(SumSeq(g), Len(g)))

\* group.var(ddof=1): the squared deviations from the mean summed and divided by
\* n - 1; NaN on fewer than two values
np_var(g) ==
    IF Len(g) < 2 THEN NA
    ELSE LET mu == Val(np_mean(g))
             dev == [i \in 1..Len(g) |-> RSub(<<g[i], 1>>, mu)]
         IN  Some(RDiv(RSumSeq([i \in 1..Len(g) |-> RMul(dev[i], dev[i])]),
                       <<Len(g) - 1, 1>>))

\* the square of pooled_std; NaN as soon as one variance is NaN
pooled_var(group1, group2) ==
    LET n1 == Len(group1)
        n2 == Len(group2)
        var1 == np_var(group1)
        var2 == np_var(group2)
    IN  IF isna(var1) \/ isna(var2) THEN NA
        ELSE Some(RDiv(RAdd(RMul(<<n1 - 1, 1>>, Val(var1)), RMul(<<n2 - 1, 1>>, Val(var2))),
                       <<n1 + n2 - 2, 1>>))

\* d = (mean1 - mean2) / pooled_std if pooled_std > 0 else 0
pooled_d(group1, group2, pooled2) ==
    IF isna(pooled2) \/ RSign(Val(pooled2)) <= 0 THEN RootZero
    ELSE LET diff == RSub(Val(np_mean(group1)), Val(np_mean(group2)))
         IN  SignedRoot(RSign(diff), RDiv(RMul(diff, diff), Val(pooled2)))

\* the bands of |d|: 0.2, 0.5, 0.8
interpret_d(d) ==
    IF RLess(d[2], <<4, 100>>) THEN "negligible"
    ELSE IF RLess(d[2], <<25, 100>>) THEN "small"
    ELSE IF RLess(d[2], <<64, 100>>) THEN "medium"
    ELSE "large"

\* Glass's delta: the standard deviation of the first group alone
Mutant_cohens_d_first_group_sd(group1, group2) ==
    LET d == pooled_d(group1, group2, IF Len(group2) = 0 THEN NA ELSE np_var(group1))
    IN  [raised |-> FALSE, d |-> d, interpretation |-> interpret_d(d)]

\* phase 3: returns (d, interpretation)
cohens_d(group1, group2) ==
    LET d == pooled_d(group1, group2, pooled_var(group1, group2))
    IN  [raised |-> FALSE, d |-> d, interpretation |-> interpret_d(d)]

(***************************************************************************)
(* likelihood_ratio_test (phase 3) on two fitted models, each given by its *)
(* log-likelihood llf and its df_model                                     *)
(***************************************************************************)
\* stats.chi2.cdf(x, df): NaN for df <= 0, 0 for x <= 0, and otherwise a value of
\* (0, 1] that the model does not compute: any of a few is possible
chi2_cdf(x, dof) ==
    IF dof <= 0 THEN {NA}
    ELSE IF RSign(x) <= 0 THEN {Some(<<0, 1>>)}
    ELSE {Some(<<1, 100>>), Some(<<1, 2>>), Some(<<19, 20>>), Some(<<999, 1000>>),
          Some(<<1, 1>>)}

\* p_value = 1 - stats.chi2.cdf(chi2, df), without the test of df > 0
Mutant_likelihood_ratio_test_unguarded(model_reduced, model_full) ==
    LET chi2 == RMul(<<2, 1>>, RSub(model_full.llf, model_reduced.llf))
        df_ == model_full.df_model - model_reduced.df_model
    IN  {[chi2 |-> chi2, df |-> df_,
          p_value |-> IF isna(F) THEN NA ELSE Some(RSub(<<1, 1>>, Val(F)))] :
            F \in chi2_cdf(chi2, df_)}

\* the possible results (chi2, df, p_value)
likelihood_ratio_test(model_reduced, model_full) ==
    LET ll_reduced == model_reduced.llf
        ll_full == model_full.llf
        chi2 == RMul(<<2, 1>>, RSub(ll_full, ll_reduced))
        df_ == model_full.df_model - model_reduced.df_model
    IN  IF df_ > 0
        THEN {[chi2 |-> chi2, df |-> df_, p_value |-> Some(RSub(<<1, 1>>, Val(F)))] :
                F \in chi2_cdf(chi2, df_)}
        ELSE {[chi2 |-> chi2, df |-> df_, p_value |-> Some(<<1, 1>>)]}

(***************************************************************************)
(* Effect sizes of phase 5                                                 *)
(***************************************************************************)
\* phase 5: returns (d, interpretation, ci_lower, ci_upper) with the bounds
\* d -/+ 1.96 * se_d, given here by se_d2, the square of se_d;
\* (n1 + n2) / (n1 * n2) divides two ints and raises ZeroDivisionError on an empty
\* group
cohens_d_5(group1, group2) ==
    LET n1 == Len(group1)
        n2 == Len(group2)
        d == pooled_d(group1, group2, pooled_var(group1, group2))
    IN  IF n1 * n2 = 0
        THEN [raised |-> TRUE, d |-> RootZero, interpretation |-> "", se_d2 |-> <<0, 1>>]
        ELSE [raised |-> FALSE, d |-> d, interpretation |-> interpret_d(d),
              se_d2 |-> RAdd(Rat(n1 + n2, n1 * n2), RDiv(d[2], <<2 * (n1 + n2), 1>>))]

\* the bands of |r|: 0.1, 0.3, 0.5
interpret_r(r) ==
    IF RLess(RAbs(r), <<1, 10>>) THEN "negligible"
    ELSE IF RLess(RAbs(r), <<3, 10>>) THEN "small"
    ELSE IF RLess(RAbs(r), <<5, 10>>) THEN "medium"
    ELSE "large"

\* r = 1 - (2U)/(n1*n2), the formula of the docstring
Mutant_rank_biserial_r_docstring(U, n1, n2) ==
    LET r == RSub(<<1, 1>>, RDiv(RMul(<<2, 1>>, U), <<n1 * n2, 1>>))
    IN  [r |-> r, interpretation |-> interpret_r(r)]

\* returns (r, interpretation, ci_lower, ci_upper) for n1, n2 >= 1; the bounds,
\* tanh(arctanh(r) -/+ 1.96 / sqrt(n1 + n2 - 3)), are not modelled
rank_biserial_r(U, n1, n2) ==
    LET r == RSub(RDiv(RMul(<<2, 1>>, U), <<n1 * n2, 1>>), <<1, 1>>)
    IN  [r |-> r, interpretation |-> interpret_r(r)]

(***************************************************************************)
(* The global generator of np.random: a state that every draw advances.    *)
(* The Mersenne Twister is modelled by a linear congruential generator.    *)
(***************************************************************************)
rng_next(state) == (75 * state + 74) % 65537

(***************************************************************************)
(* check_normality.  The data are given by what the function uses of them: *)
(*   n    len(data)                                                        *)
(*   p    the p-value of stats.shapiro(data), NA when n < 3                *)
(*   sub  for each generator state, the p-value of stats.shapiro on the    *)
(*        subsample np.random.choice(data, 5000, replace=False) draws in   *)
(*        that state (<<>> when n <= 5000)                                 *)
(* W is not modelled: it is a function of the same sample as p.            *)
(***************************************************************************)
SHAPIRO_MAX == 5000

\* returns (is_normal, p) and the state the generator is left in
check_normality(data, state) ==
    IF data.n < 3 THEN [is_normal |-> FALSE, p |-> NA, rng |-> state]
    ELSE IF data.n <= SHAPIRO_MAX
    THEN [is_normal |-> RLess(<<1, 20>>, Val(data.p)), p |-> data.p, rng |-> state]
    ELSE LET p == data.sub[state]
         IN  [is_normal |-> RLess(<<1, 20>>, p), p |-> Some(p), rng |-> rng_next(state)]

(***************************************************************************)
(* check_mc_transparency and check_mc_control on the two groups            *)
(* df[level == 0][column].dropna() and df[level == 1][column].dropna(),    *)
(* each given by its values and the p-value of stats.shapiro on them.      *)
(* Both groups are non-empty.  The t statistic, the p-value of the test    *)
(* and the result that depends on it are not modelled.                     *)
(***************************************************************************)
DataOf(group) == [n |-> Len(group.values), p |-> group.p, sub |-> <<>>]

\* stats.mannwhitneyu(x, y)[0]: the pairs with x above y, ties counting one half
mannwhitneyu(x, y) ==
    Rat(SumSeq([k \in 1..(Len(x) * Len(y)) |->
            LET xi == x[((k - 1) \div Len(y)) + 1]
                yj == y[((k - 1) % Len(y)) + 1]
            IN  IF xi > yj THEN 2 ELSE IF xi = yj THEN 1 ELSE 0]), 2)

parametric_record(check, low, high) ==
    LET e == cohens_d_5(high.values, low.values)
    IN  [check |-> check, n_low |-> Len(low.values), n_high |-> Len(high.values),
         test |-> "t-test", effect_size |-> e.d, effect_metric |-> "Cohen's d",
         effect_interpretation |-> e.interpretation]

nonparametric_record(check, low, high) ==
    LET U == mannwhitneyu(high.values, low.values)
        e == rank_biserial_r(U, Len(high.values), Len(low.values))
    IN  [check |-> check, n_low |-> Len(low.values), n_high |-> Len(high.values),
         test |-> "Mann-Whitney U", effect_size |-> e.r, effect_metric |-> "rank-biserial r",
         effect_interpretation |-> e.interpretation]

\* use_parametric = norm_0 or norm_1
Mutant_check_mc_either_normal(check, low, high, state) ==
    LET norm_0 == check_normality(DataOf(low), state)
        norm_1 == check_normality(DataOf(high), norm_0.rng)
        use_parametric == norm_0.is_normal \/ norm_1.is_normal
    IN  <<IF use_parametric THEN parametric_record(check, low, high)
          ELSE nonparametric_record(check, low, high),
          norm_1.rng>>

\* the returned record and the state the generator is left in
check_mc(check, low, high, state) ==
    LET norm_0 == check_normality(DataOf(low), state)
        norm_1 == check_normality(DataOf(high), norm_0.rng)
        use_parametric == norm_0.is_normal /\ norm_1.is_normal
    IN  <<IF use_parametric THEN parametric_record(check, low, high)
          ELSE nonparametric_record(check, low, high),
          norm_1.rng>>

check_mc_transparency(low, high, state) ==
    check_mc("MC-T (Perceived Transparency)", low, high, state)

check_mc_control(low, high, state) ==
    check_mc("MC-C (Perceived Control)", low, high, state)

(***************************************************************************)
(* cramers_v_ci (phase 2): the bootstrap interval of Cramer's V            *)
(***************************************************************************)
BOOTSTRAP_SEED == 42

MIN_BOOTSTRAP == 100

\* np.random.seed(seed): the state of the generator after seeding
np_random_seed(seed) == seed % 65537

\* contingency_table.flatten(), row by row
flatten(t) == [k \in 1..(NRows(t) * NCols(t)) |->
                  t[((k - 1) \div NCols(t)) + 1][((k - 1) % NCols(t)) + 1]]

\* sample.reshape(rows, cols)
reshape(sample, rows, cols) ==
    [i \in 1..rows |-> [j \in 1..cols |-> sample[(i - 1) * cols + j]]]

\* the cell a draw falls in: the first k with x < (counts[1] + ... + counts[k]) * 65537,
\* where x = u * n for a uniform u of 0..65536: cell k has probability counts[k] / n
RECURSIVE cell_of(_, _, _, _)
cell_of(counts, k, below, x) ==
    IF x < (below + counts[k]) * 65537 THEN k
    ELSE cell_of(counts, k + 1, below + counts[k], x)

\* np.random.multinomial(n, counts / n): n draws, each advancing the generator
RECURSIVE multinomial_draws(_, _, _, _, _)
multinomial_draws(i, n, counts, state, sample) ==
    IF i = 0 THEN [sample |-> sample, rng |-> state]
    ELSE LET s == rng_next(state)
             c == cell_of(counts, 1, 0, s * n)
         IN  multinomial_draws(i - 1, n, counts, s, [sample EXCEPT ![c] = @ + 1])

multinomial(n, counts, state) ==
    multinomial_draws(n, n, counts, state, [k \in 1..Len(counts) |-> 0])

\* resampled_table.sum(axis=0).min() > 0 and resampled_table.sum(axis=1).min() > 0
valid_table(t) ==
    /\ \A j \in 1..NCols(t) : ColSum(t, j) > 0
    /\ \A i \in 1..NRows(t) : RowSum(t, i) > 0

\* one round of the loop: the resampled table, the value it contributes (as a
\* square, like every V) unless a margin is zero or cramers_v raises, and the
\* generator state
resample_once(table, state) ==
    LET m == multinomial(TableSum(table), flatten(table), state)
        resampled_table == reshape(m.sample, NRows(table), NCols(table))
        v == cramers_v(resampled_table)
    IN  [bootstrap_vs |-> IF valid_table(resampled_table) /\ ~v.raised
                          THEN <<v.V2>> ELSE <<>>,
         resamples |-> <<resampled_table>>, rng |-> m.rng]

\* the rounds of first followed by the rounds of second
resample_join(first, second) ==
    [bootstrap_vs |-> first.bootstrap_vs \o second.bootstrap_vs,
     resamples |-> first.resamples \o second.resamples, rng |-> second.rng]

\* rounds i..j of the loop, run in order from the generator state given (the first
\* half, then the second half from the state the first left): the values collected,
\* the tables drawn and the generator state
RECURSIVE resample(_, _, _, _)
RECURSIVE resample_then(_, _, _, _)
resample(i, j, table, state) ==
    IF i > j THEN [bootstrap_vs |-> <<>>, resamples |-> <<>>, rng |-> state]
    ELSE IF i = j THEN resample_once(table, state)
    ELSE resample_then(resample(i, (i + j) \div 2, table, state),
                       ((i + j) \div 2) + 1, j, table)

resample_then(first, i, j, table) ==
    resample_join(first, resample(i, j, table, first.rng))

\* the values of s in ascending order: those below the middle value, those equal
\* to it, those above it
RECURSIVE sorted(_)
sorted(s) ==
    IF Len(s) <= 1 THEN s
    ELSE LET pivot == s[(Len(s) + 1) \div 2]
         IN  sorted(SelectSeq(s, LAMBDA x : RLess(x, pivot)))
                 \o SelectSeq(s, LAMBDA x : ~RLess(x, pivot) /\ ~RLess(pivot, x))
                 \o sorted(SelectSeq(s, LAMBDA x : RLess(pivot, x)))

\* a number (1 - frac) * sqrt(lo) + frac * sqrt(hi) between two values of V
Between(lo, hi, frac) ==
    IF frac = <<0, 1>> \/ lo = hi THEN [lo |-> lo, hi |-> lo, frac |-> <<0, 1>>]
    ELSE [lo |-> lo, hi |-> hi, frac |-> frac]

\* np.percentile(a, q) with linear interpolation, a # [] given by its squares
np_percentile(a, q) ==
    LET s == sorted(a)
        pos == RMul(RDiv(q, <<100, 1>>), <<Len(a) - 1, 1>>)
        k == pos[1] \div pos[2]
        frac == RSub(pos, <<k, 1>>)
    IN  IF k + 2 > Len(s) THEN Between(s[k + 1], s[k + 1], <<0, 1>>)
        ELSE Between(s[k + 1], s[k + 2], frac)

CiRaised ==
    [raised |-> TRUE, V |-> <<0, 1>>, ci_lower |-> Between(<<0, 1>>, <<0, 1>>, <<0, 1>>),
     ci_upper |-> Between(<<0, 1>>, <<0, 1>>, <<0, 1>>), bootstrap_vs |-> <<>>,
     resamples |-> <<>>]

\* (V, ci_lower, ci_upper) with the values and tables of the loop
ci_result(observed_v, confidence, loop) ==
    LET alpha == RSub(<<1, 1>>, confidence)
        half == RMul(RDiv(alpha, <<2, 1>>), <<100, 1>>)
    IN  IF Len(loop.bootstrap_vs) < MIN_BOOTSTRAP
        THEN [raised |-> FALSE, V |-> observed_v.V2,
              ci_lower |-> Between(<<0, 1>>, <<0, 1>>, <<0, 1>>),
              ci_upper |-> Between(<<1, 1>>, <<1, 1>>, <<0, 1>>),
              bootstrap_vs |-> loop.bootstrap_vs, resamples |-> loop.resamples]
        ELSE [raised |-> FALSE, V |-> observed_v.V2,
              ci_lower |-> np_percentile(loop.bootstrap_vs, half),
              ci_upper |-> np_percentile(loop.bootstrap_vs, RSub(<<100, 1>>, half)),
              bootstrap_vs |-> loop.bootstrap_vs, resamples |-> loop.resamples]

\* the percentiles are taken of however few values were collected
Mutant_cramers_v_ci_no_minimum(contingency_table, confidence, n_bootstrap, state) ==
    LET observed_v == cramers_v(contingency_table)
        loop == resample(1, n_bootstrap, contingency_table,
                         np_random_seed(BOOTSTRAP_SEED))
        alpha == RSub(<<1, 1>>, confidence)
        half == RMul(RDiv(alpha, <<2, 1>>), <<100, 1>>)
    IN  IF observed_v.raised THEN <<CiRaised, state>>
        ELSE IF loop.bootstrap_vs = <<>> THEN <<CiRaised, loop.rng>>
        ELSE <<[raised |-> FALSE, V |-> observed_v.V2,
                ci_lower |-> np_percentile(loop.bootstrap_vs, half),
                ci_upper |-> np_percentile(loop.bootstrap_vs, RSub(<<100, 1>>, half)),
                bootstrap_vs |-> loop.bootstrap_vs, resamples |-> loop.resamples],
               loop.rng>>

\* the generator is not seeded: the loop starts in the state it finds
Mutant_cramers_v_ci_unseeded(contingency_table, confidence, n_bootstrap, state) ==
    LET observed_v == cramers_v(contingency_table)
        loop == resample(1, n_bootstrap, contingency_table, state)
    IN  IF observed_v.raised THEN <<CiRaised, state>>
        ELSE <<ci_result(observed_v, confidence, loop), loop.rng>>

\* the result, for a table of positive total, and the state the generator is left
\* in; cramers_v of the observed table raises before the generator is touched
cramers_v_ci(contingency_table, confidence, n_bootstrap, state) ==
    IF cramers_v(contingency_table).raised THEN <<CiRaised, state>>
    ELSE CHOOSE result \in
             {<<ci_result(observed_v, confidence, loop), loop.rng>> :
                 observed_v \in {cramers_v(contingency_table)},
                 loop \in {resample(1, n_bootstrap, contingency_table,
                                    np_random_seed(BOOTSTRAP_SEED))}} : TRUE

(***************************************************************************)
(* The Q14 free-text functions (phase 1.8 and phase 6B).  Both assign      *)
(* columns to the frame they are given; each is modelled by the frame      *)
(* after the call (df) and the value returned (result).                    *)
(***************************************************************************)
\* notna() & (str.strip() != '')
q14_non_empty(text) == ~text.na /\ strip(text.s) # <<>>

\* fillna('').str.len()
q14_char_length(text) == IF text.na THEN 0 ELSE Len(text.s)

\* Series.median() of a non-empty sequence of integers
median(a) ==
    LET s == sorted([i \in 1..Len(a) |-> <<a[i], 1>>])
        n == Len(s)
    IN  IF n % 2 = 1 THEN s[(n + 1) \div 2]
        ELSE RDiv(RAdd(s[n \div 2], s[(n \div 2) + 1]), <<2, 1>>)

\* round(x, digits): the nearest multiple of 10^-digits, a tie to the even one
round(x, digits) ==
    LET t == RMul(RAbs(x), <<10^digits, 1>>)
        f == t[1] \div t[2]
        r == RSub(t, <<f, 1>>)
        k == IF RLess(r, <<1, 2>>) THEN f
             ELSE IF RLess(<<1, 2>>, r) THEN f + 1
             ELSE IF f % 2 = 0 THEN f ELSE f + 1
    IN  Rat(RSign(x) * k, 10^digits)

\* one row of the response-rate table, of the rows of the frame given
response_rate_row(label, rows) ==
    LET n == Len(rows)
        answered == SelectSeq(rows, LAMBDA r : r.q14_non_empty)
        responses == Len(answered)
        rate == IF n > 0 THEN RMul(Rat(responses, n), <<100, 1>>) ELSE <<0, 1>>
        lengths == [i \in 1..Len(answered) |-> answered[i].q14_char_length]
    IN  [Condition |-> label, n |-> n, Responses |-> responses,
         ResponseRate |-> round(rate, 1),
         MedianCharLength |-> IF lengths = <<>> THEN 0
                              ELSE median(lengths)[1] \div median(lengths)[2]]

\* compute_q14_response_rate(df) on a frame with an open_feedback column
compute_q14_response_rate(frame) ==
    LET marked == [i \in 1..Len(frame) |->
                      [q14_non_empty |-> q14_non_empty(frame[i].open_feedback),
                       q14_char_length |-> q14_char_length(frame[i].open_feedback)]
                      @@ frame[i]]
        of(c) == SelectSeq(marked, LAMBDA r : r.condition = Some(c))
    IN  [df |-> marked,
         result |-> [k \in 1..5 |->
                        IF k = 5 THEN response_rate_row("Overall", marked)
                        ELSE response_rate_row(CONDITIONS[k], of(CONDITIONS[k]))]]

\* Counter(all_themes) as a function from the themes that occur to their counts
Counter(items) ==
    [t \in {items[i] : i \in 1..Len(items)} |->
        Cardinality({i \in 1..Len(items) : items[i] = t})]

RECURSIVE extend_all(_)
extend_all(lists) == IF lists = <<>> THEN <<>> ELSE Head(lists) \o extend_all(Tail(lists))

\* analyze_q14_themes(df) on a frame with an open_feedback column: the frame after
\* the call, and of the returned dict the response count and 'overall_themes' (the
\* tables by condition and by decision and the quotes are left out)
analyze_q14_themes(frame) ==
    LET marked == [i \in 1..Len(frame) |->
                      [q14_non_empty |-> q14_non_empty(frame[i].open_feedback),
                       themes |-> code_themes(frame[i].open_feedback, THEME_CODEBOOK)]
                      @@ frame[i]]
        responses_n == Len(SelectSeq(marked, LAMBDA r : r.q14_non_empty))
    IN  [df |-> marked,
         result |-> [responses_n |-> responses_n,
                     overall_themes |->
                         Counter(extend_all([i \in 1..Len(marked) |-> marked[i].themes]))]]

(***************************************************************************)
(* The five logistic models of phase 3.  statsmodels is not part of the    *)
(* program: what the optimiser reaches on a design matrix (log-likelihood, *)
(* convergence flag, test of the overall model, predictions) is given to   *)
(* the model as 'reached', and only fits that return are modelled.         *)
(***************************************************************************)
\* sm.add_constant(df[[...]]): the columns of the five design matrices
X1 == <<"const", "transparency_level">>

X2 == <<"const", "control_level">>

X3 == <<"const", "transparency_level", "control_level">>

X4 == <<"const", "transparency_level", "control_level", "T_x_C">>

X5 == <<"const", "transparency_level", "control_level", "T_x_C",
        "age_ordinal", "gender_coded", "education_ordinal">>

\* Logit(y, X).fit(disp=0) on a design matrix of full column rank: the results
\* object.  bic = -2 llf + ln(n) * (df_model + 1) is carried by its two parts.
Logit_fit(y, X, reached) ==
    [endog |-> y, exog_names |-> X,
     llf |-> reached.llf, llnull |-> reached.llnull,
     df_model |-> Len(X) - 1,
     aic |-> RAdd(RMul(<<-2, 1>>, reached.llf), <<2 * Len(X), 1>>),
     bic |-> [minus2llf |-> RMul(<<-2, 1>>, reached.llf), ln_n_times |-> Len(X)],
     llr |-> RMul(<<2, 1>>, RSub(reached.llf, reached.llnull)),
     llr_pvalue |-> reached.llr_pvalue,
     converged |-> reached.converged,
     vif |-> reached.vif]

\* the record returned by fit_logistic_model; of coef_table the Variable column,
\* vif is None for up to two columns or when calculate_vif raised
fit_logistic_model(y, X, model_name, reached) ==
    LET result == Logit_fit(y, X, reached)
    IN  [name |-> model_name,
         result |-> result,
         coef_table |-> [Variable |-> X],
         n |-> Len(y),
         ll |-> result.llf,
         ll_null |-> result.llnull,
         aic |-> result.aic,
         bic |-> result.bic,
         wald_chi2 |-> result.llr,
         wald_p |-> result.llr_pvalue,
         df_model |-> result.df_model,
         converged |-> result.converged,
         vif |-> IF Len(X) > 2 THEN result.vif ELSE NA,
         y_pred_prob |-> reached.predict]

\* one row of the comparison table, for one possible result lrt of the test
comparison_row(label, reduced, full, lrt) ==
    [Comparison |-> label,
     chi2 |-> round(lrt.chi2, 3),
     df |-> lrt.df,
     p |-> round(Val(lrt.p_value), 4),
     dAIC |-> round(RSub(reduced.aic, full.aic), 1),
     Significant |-> IF RLess(Val(lrt.p_value), ALPHA) THEN "Yes" ELSE "No"]

\* the possible rows of a comparison: likelihood_ratio_test on the two results
comparison(label, reduced, full) ==
    {comparison_row(label, reduced, full, lrt) :
        lrt \in likelihood_ratio_test(reduced.result, full.result)}

\* the pairs (reduced, full) of results keys handed to likelihood_ratio_test
COMPARISONS ==
    <<[label |-> "M1 -> M3 (adding C)", reduced |-> "model1", full |-> "model3"],
      [label |-> "M3 -> M4 (adding TxC)", reduced |-> "model3", full |-> "model4"],
      [label |-> "M4 -> M5 (adding covariates)", reduced |-> "model4", full |-> "model5"]>>

\* f'model{i}' for i in range(1, 6)
MODEL_KEYS == <<"model1", "model2", "model3", "model4", "model5">>

\* the line of the validation report on convergence
convergence_report(results) ==
    IF \A i \in 1..5 : results[MODEL_KEYS[i]].converged
    THEN "All models converged" ELSE "Some models failed to converge"

\* the design matrices and names of the five fit_logistic_model calls
DESIGNS == <<X1, X2, X3, X4, X5>>

MODEL_NAMES ==
    <<"Model 1: Donation ~ T", "Model 2: Donation ~ C", "Model 3: Donation ~ T + C",
      "Model 4: Donation ~ T + C + TxC", "Model 5: Full model">>

\* results['model1'] .. results['model5']
fit_models(y, reached) ==
    [key \in {MODEL_KEYS[i] : i \in 1..5} |->
        LET i == CHOOSE k \in 1..5 : MODEL_KEYS[k] = key
        IN  fit_logistic_model(y, DESIGNS[i], MODEL_NAMES[i], reached[i])]

RECURSIVE model_comparisons(_, _)
\* the possible comparison tables: one row for each pair compared, in order
model_comparisons(results, compared) ==
    IF compared = <<>> THEN {<<>>}
    ELSE {<<row>> \o rest :
            row \in comparison(Head(compared).label, results[Head(compared).reduced],
                               results[Head(compared).full]),
            rest \in model_comparisons(results, Tail(compared))}

\* the convergence flags are not read: the report is always the good one
Mutant_run_phase3_analysis_unchecked(y, reached) ==
    {[results |-> fit_models(y, reached), model_comparisons |-> table,
      compared |-> COMPARISONS, convergence |-> "All models converged"] :
        table \in model_comparisons(fit_models(y, reached), COMPARISONS)}

\* the first comparison is of Model 2 with Model 1
Mutant_run_phase3_analysis_m2_reduced(y, reached) ==
    {[results |-> fit_models(y, reached), model_comparisons |-> table,
      compared |-> [COMPARISONS EXCEPT ![1].reduced = "model2", ![1].full = "model1"],
      convergence |-> convergence_report(fit_models(y, reached))] :
        table \in model_comparisons(
                      fit_models(y, reached),
                      [COMPARISONS EXCEPT ![1].reduced = "model2", ![1].full = "model1"])}

\* run_phase3_analysis on the outcome vector y: the possible values of results
\* (the five model records), of the comparison table with the pair of results keys
\* each row was computed from, and the convergence line of the validation report.
\* The effect sizes, predicted probabilities and summary tables are left out.
run_phase3_analysis(y, reached) ==
    {[results |-> fit_models(y, reached), model_comparisons |-> table,
      compared |-> COMPARISONS, convergence |-> convergence_report(fit_models(y, reached))] :
        table \in model_comparisons(fit_models(y, reached), COMPARISONS)}

(***************************************************************************)
(* python-service: the dataset cache of fetch_csv (swissvotes_csv.py)      *)
(*                                                                         *)
(* files is the data directory, now the clock in whole days.  A file is    *)
(* NA while it does not exist.  A downloaded body is [utf8, lines]: utf8   *)
(* says whether the bytes decode, lines are the decoded lines, each a      *)
(* sequence of ';'-separated fields.                                       *)
(***************************************************************************)
CACHE_MAX_AGE_DAYS == 7

\* the data directory before the first request (os.makedirs only)
NoFiles ==
    [CACHE_FILE |-> NA, CACHE_META_FILE |-> NA, PDF_CACHE_DIR |-> <<>>,
     PDF_META_FILE |-> NA]

\* an exception leaving the call / a value returned by it
Raise == [raised |-> TRUE, df |-> <<>>]

Return(frame) == [raised |-> FALSE, df |-> frame]

\* pd.read_csv(sep=';', encoding='utf-8-sig'): UnicodeDecodeError on bytes that
\* do not decode, EmptyDataError on a body without a header line; otherwise one
\* row per line after the header, a short line padded with NaN
read_csv(body) ==
    IF ~body.utf8 \/ body.lines = <<>> THEN Raise
    ELSE LET header == body.lines[1]
             columns == {header[j] : j \in 1..Len(header)}
             line(i) == body.lines[i + 1]
             row(i) == [c \in columns |->
                           LET j == CHOOSE k \in 1..Len(header) : header[k] = c
                           IN  IF j <= Len(line(i)) THEN Some(line(i)[j]) ELSE NA]
         IN  Return([i \in 1..(Len(body.lines) - 1) |-> row(i)])

\* age of the cache in days, None without a metadata file
_get_cache_age(fs, today) ==
    IF fs.CACHE_META_FILE = NA THEN NA
    ELSE Some(today - Val(fs.CACHE_META_FILE).cached_at)

\* the data directory after _update_cache_meta()
_update_cache_meta(fs, today) ==
    [fs EXCEPT !.CACHE_META_FILE = Some([cached_at |-> today])]

\* the first branch of fetch_csv returns: the cache is young enough, the cache
\* file exists and reads
uses_cache(force_refresh, fs, today) ==
    LET cache_age == _get_cache_age(fs, today)
    IN  /\ ~force_refresh
        /\ cache_age # NA
        /\ Val(cache_age) < CACHE_MAX_AGE_DAYS
        /\ fs.CACHE_FILE # NA
        /\ ~read_csv(Val(fs.CACHE_FILE)).raised

\* requests.get raises (connection error, timeout) or raise_for_status raises
\* (status 4xx or 5xx)
requests_raises(response) == response.error \/ response.status_code >= 400

\* the except branch: the cache file is read if it exists (an error of that read
\* leaves the call), otherwise the exception is raised again
fall_back(fs) == IF fs.CACHE_FILE # NA THEN read_csv(Val(fs.CACHE_FILE)) ELSE Raise

\* fetch_csv(force_refresh) when the request is answered by response: the data
\* directory it leaves and what it returns or raises
fetch_csv(force_refresh, response, fs, today) ==
    IF uses_cache(force_refresh, fs, today)
    THEN [files |-> fs, ret |-> read_csv(Val(fs.CACHE_FILE))]
    ELSE IF requests_raises(response)
    THEN [files |-> fs, ret |-> fall_back(fs)]
    ELSE LET written == [fs EXCEPT !.CACHE_FILE = Some(response.content)]
             saved == _update_cache_meta(written, today)
             read == read_csv(Val(saved.CACHE_FILE))
         IN  IF read.raised
             THEN [files |-> saved, ret |-> fall_back(saved)]
             ELSE [files |-> saved, ret |-> read]

(***************************************************************************)
(* python-service: the text cache of pdf_extractor.py                      *)
(*                                                                         *)
(* files.PDF_CACHE_DIR maps the path of a cached text file to its text;    *)
(* files.PDF_META_FILE is NA while the file does not exist, else           *)
(* [json, value]: json says whether the bytes in the file are a complete   *)
(* JSON document, value is the dict they encode.  handlers holds the frame *)
(* of each running download_and_extract_pdf call.                          *)
(***************************************************************************)
PDF_DOC_TYPES == <<"abstimmungstext", "botschaft", "vorpruefung", "zustandekommen">>

\* str.replace on a sequence of characters
replace(s, old, new) == [i \in DOMAIN s |-> IF s[i] = old THEN new ELSE s[i]]

_get_pdf_url(anr, doc_type, lang) == <<"https://swissvotes.ch/vote/", anr, doc_type, lang>>

_get_cache_path(anr, doc_type, lang) == <<replace(anr, ".", "_"), doc_type, lang>>

\* the metadata key f"{anr}_{doc_type}_{lang}"
meta_key(anr, doc_type, lang) == <<anr, doc_type, lang>>

\* a dict with one more item
setitem(d, key, value) == [k \in DOMAIN d \cup {key} |-> IF k = key THEN value ELSE d[k]]

\* json.load of the metadata file; {} when the file is absent or does not parse
_load_cache_meta(fs) ==
    IF fs.PDF_META_FILE # NA /\ Val(fs.PDF_META_FILE).json
    THEN Val(fs.PDF_META_FILE).value
    ELSE <<>>

\* open(PDF_META_FILE, 'w'): the file exists and is empty
open_w(fs) == [fs EXCEPT !.PDF_META_FILE = Some([json |-> FALSE, value |-> <<>>])]

\* json.dump(meta, f) and the close of the file
json_dump(fs, meta) == [fs EXCEPT !.PDF_META_FILE = Some([json |-> TRUE, value |-> meta])]

RECURSIVE join(_)
\* "\n\n".join(text_parts)
join(text_parts) ==
    IF text_parts = <<>> THEN <<>>
    ELSE IF Len(text_parts) = 1 THEN text_parts[1]
    ELSE text_parts[1] \o <<"\n", "\n">> \o join(Tail(text_parts))

\* the text of the pages that have one; NA when the request fails, the status is
\* not 200, the body is no PDF, or no page has text
extract_text(response) ==
    LET text_parts == SelectSeq(response.pages, LAMBDA page_text : page_text # <<>>)
    IN  IF response.error \/ response.status_code # 200 \/ ~response.pdf
           \/ text_parts = <<>>
        THEN NA
        ELSE Some(join(text_parts))

RECURSIVE total_size(_)
\* sum(entry.get('size', 0) for entry in meta.values())
total_size(meta) ==
    IF DOMAIN meta = {} THEN 0
    ELSE LET k == CHOOSE key \in DOMAIN meta : TRUE
         IN  meta[k].size + total_size([key \in DOMAIN meta \ {k} |-> meta[key]])

get_cached_pdf_stats(fs) ==
    LET meta == _load_cache_meta(fs)
    IN  IF DOMAIN meta = {}
        THEN [cached_documents |-> 0, total_size |-> 0]
        ELSE [cached_documents |-> Cardinality(DOMAIN meta),
              total_size |-> total_size(meta),
              total_size_mb |-> round(Rat(total_size(meta), 1024 * 1024), 2)]

(***************************************************************************)
(* python-service: search_votes (swissvotes_csv.py)                        *)
(*                                                                         *)
(* A row of the dataset has the nullable text columns titel_kurz_d,        *)
(* titel_kurz_f, titel_kurz_e, titel_off_d and stichwort, the nullable     *)
(* column volkja and the column datum.  The text of a date "DD.MM.YYYY" is *)
(* the triple <<DD, MM, YYYY>>; NoDate is a text that is no date.          *)
(***************************************************************************)
NoDate == <<0, 0, 0>>

\* str(value) of a text cell: 'nan' for NaN
str(x) == IF isna(x) THEN <<"n", "a", "n">> ELSE Val(x)

\* str(value) of the datum cell
str_datum(x) == IF isna(x) THEN NoDate ELSE Val(x)

\* days of the month (strptime rejects a day the month does not have)
days_in_month(m, y) ==
    IF m \in {4, 6, 9, 11} THEN 30
    ELSE IF m # 2 THEN 31
    ELSE IF y % 4 = 0 /\ (y % 100 # 0 \/ y % 400 = 0) THEN 29
    ELSE 28

\* a datetime as a number that grows with the date
datetime(y, m, d) == (y * 12 + (m - 1)) * 31 + d

datetime_min == datetime(1, 1, 1)

\* datetime.strptime(str(date_str), '%d.%m.%Y'), None when it raises
_parse_date(date_str) ==
    LET d == date_str[1]
        m == date_str[2]
        y == date_str[3]
    IN  IF y \in 1..9999 /\ m \in 1..12 /\ d \in 1..days_in_month(m, y)
        THEN Some(datetime(y, m, d))
        ELSE NA

RECURSIVE join_space(_)
\* ' '.join(parts)
join_space(parts) ==
    IF parts = <<>> THEN <<>>
    ELSE IF Len(parts) = 1 THEN parts[1]
    ELSE parts[1] \o <<" ">> \o join_space(Tail(parts))

\* the keys of row_to_vote_dict that search_votes and its callers read
row_to_vote_dict(row) ==
    [anr |-> row.anr,
     abstimmungsdatum |-> str_datum(row.datum),
     title_de |-> str(row.titel_kurz_d),
     schlagwort |-> str(row.stichwort),
     is_upcoming |-> isna(row.volkja)]

\* the rows search_votes appends to results
matches(row, keyword_lower, include_historical, today) ==
    LET searchable == lower(join_space(<<str(row.titel_kurz_d), str(row.titel_kurz_f),
                                         str(row.titel_kurz_e), str(row.titel_off_d),
                                         str(row.stichwort)>>))
        date == _parse_date(str_datum(row.datum))
        is_upcoming == date # NA /\ Val(date) > today
    IN  contains(keyword_lower, searchable) /\ (include_historical \/ is_upcoming)

\* the sort key of a result
sort_key(x) ==
    LET date == _parse_date(x.abstimmungsdatum)
    IN  <<IF x.is_upcoming THEN 0 ELSE 1, IF date = NA THEN datetime_min ELSE Val(date)>>

\* comparison of two key tuples
key_less(a, b) == a[1] < b[1] \/ (a[1] = b[1] /\ a[2] < b[2])

RECURSIVE insert_reverse(_, _)
\* x placed behind every result whose key is not smaller
insert_reverse(x, s) ==
    IF s = <<>> THEN <<x>>
    ELSE IF key_less(sort_key(Head(s)), sort_key(x)) THEN <<x>> \o s
    ELSE <<Head(s)>> \o insert_reverse(x, Tail(s))

RECURSIVE sort_reverse(_)
\* list.sort(key=..., reverse=True): descending keys, equal keys in their order
sort_reverse(results) ==
    IF results = <<>> THEN <<>>
    ELSE insert_reverse(results[Len(results)],
                        sort_reverse(SubSeq(results, 1, Len(results) - 1)))

\* search_votes(keyword, lang, include_historical) on the dataset frame at the
\* time today
search_votes(frame, keyword, include_historical, today) ==
    LET keyword_lower == lower(keyword)
        found == SelectSeq(frame, LAMBDA row :
                               matches(row, keyword_lower, include_historical, today))
    IN  sort_reverse([i \in 1..Len(found) |-> row_to_vote_dict(found[i])])

(***************************************************************************)
(* Raw frames of the pipeline specification                                *)
(***************************************************************************)
Voting == <<"V", "o", "t", "i", "n", "g">>

News == <<"n", "e", "w", "s">>

NoConfig == [t |-> "NoneType", s |-> "", d |-> EmptyDict]

ConfigStr(s) == [t |-> "str", s |-> s, d |-> EmptyDict]

ConfigDict(d) == [t |-> "dict", s |-> "", d |-> d]

ConfigValues ==
    {NoConfig,
     ConfigDict([EmptyDict EXCEPT !["purpose"] = Some("commercial")]),
     ConfigStr("{\"scope\": \"topics-only\"}"),
     ConfigStr("{\"scope\": \"full\", \"purpose\": \"academic\", \"storage\": \"swiss\", \"retention\": \"1month\"}"),
     ConfigStr("{}"),
     ConfigStr("{\"scope\": "),
     ConfigStr(""),
     ConfigStr("[1, 2]"),
     ConfigStr("5"),
     ConfigStr("null"),
     ConfigStr("\"full\"")}

DefaultRow ==
    [condition |-> Some("A"), donation_decision |-> Some(1),
     attention_check |-> Text(ATTENTION_CHECK_CORRECT), donation_config |-> NoConfig,
     open_feedback |-> NullText,
     transparency1 |-> Some(4), transparency2 |-> Some(5),
     control1 |-> Some(2), control2 |-> Some(2),
     risk_traceability |-> Some(6), risk_misuse |-> Some(3)]

\* rows that differ in the columns the sample filter reads
FlowRows ==
    {[DefaultRow EXCEPT !.condition = c, !.donation_decision = d, !.attention_check = a] :
        c \in {NA, Some("B"), Some("E")},
        d \in {NA, Some(0), Some(1)},
        a \in {Text(Voting), Text(News)}}

ItemPairs == {<<NA, NA>>, <<Some(3), NA>>, <<NA, Some(6)>>, <<Some(2), Some(5)>>}

\* rows that differ in the columns prepare_variables derives from
PrepRows ==
    {[DefaultRow EXCEPT !.condition = c, !.attention_check = a, !.donation_config = g,
                        !.transparency1 = t[1], !.transparency2 = t[2],
                        !.risk_traceability = k[1], !.risk_misuse = k[2]] :
        c \in {NA, Some("A"), Some("B"), Some("C"), Some("D"), Some("E")},
        a \in {NullText, Text(ATTENTION_CHECK_CORRECT), Text(Voting), Text(News)},
        g \in ConfigValues,
        t \in ItemPairs,
        k \in {<<NA, NA>>, <<Some(7), Some(1)>>}}
        \cup {[DefaultRow EXCEPT !.control1 = q[1], !.control2 = q[2],
                                 !.risk_traceability = k[1], !.risk_misuse = k[2]] :
                 q \in ItemPairs, k \in ItemPairs}

\* rows that differ in the free-text answer
FeedbackRows ==
    {[DefaultRow EXCEPT !.condition = c, !.open_feedback = t] :
        c \in {Some("A"), Some("D")},
        t \in {NullText, Text(<<>>), Text(BlankText), Text(WorryText), Text(VoteText)}}

WithIds(f) == [i \in DOMAIN f |-> [id |-> i] @@ f[i]]

RawFrames ==
    {WithIds(f) : f \in UNION {[1..n -> FlowRows] : n \in 0..MaxRows}}
        \cup {WithIds(<<r>>) : r \in PrepRows}
        \cup {WithIds(f) : f \in UNION {[1..n -> FeedbackRows] : n \in 1..2}}

NoFlow ==
    [initial_n |-> 0, excluded_attention |-> 0, excluded_missing_condition |-> 0,
     excluded_missing_donation |-> 0, final_n |-> 0, df_filtered |-> <<>>]

NoCall == [fn |-> "none"]

(***************************************************************************)
(* The pipeline                                                            *)
(***************************************************************************)
Init ==
    /\ pc = "raw"
    /\ raw \in RawFrames
    /\ df = <<>>
    /\ flow = NoFlow
    /\ call = NoCall
    /\ ret = NA
    /\ rng = 0
    /\ files = NoFiles
    /\ now = 0
    /\ handlers = <<>>

\* df = prepare_variables(df, config), the AttributeError of a lambda included
PrepareVariables ==
    /\ pc = "raw"
    /\ IF prepare_raises(raw)
       THEN pc' = "raised" /\ df' = df
       ELSE pc' = "derived" /\ df' = prepare_variables(raw)
    /\ raw' = prepare_variables_df(raw)
    /\ UNCHANGED <<flow, call, ret, rng, files, now, handlers>>

\* prepare_variables on the same raw frame once more (a later phase prepares the
\* frame again); ret holds the frame returned
PrepareVariablesAgain ==
    /\ pc = "derived"
    /\ ret = NA
    /\ ~prepare_raises(raw)
    /\ ret' = Some(prepare_variables(raw))
    /\ raw' = prepare_variables_df(raw)
    /\ UNCHANGED <<pc, df, flow, call, rng, files, now, handlers>>

\* sample_flow = compute_sample_flow(df)
ComputeSampleFlow ==
    /\ pc = "derived"
    /\ flow' = compute_sample_flow(df)
    /\ pc' = "filtered"
    /\ UNCHANGED <<raw, df, call, ret, rng, files, now, handlers>>

\* phase 1: results['q14_response_rate'] = compute_q14_response_rate(df_filtered)
ComputeQ14ResponseRate ==
    /\ pc = "filtered"
    /\ LET r == compute_q14_response_rate(flow.df_filtered)
       IN  /\ flow' = [flow EXCEPT !.df_filtered = r.df]
           /\ ret' = Some(r.result)
    /\ pc' = "q14_response_rate"
    /\ UNCHANGED <<raw, df, call, rng, files, now, handlers>>

\* phase 6: results['q14'] = analyze_q14_themes(df_filtered)
AnalyzeQ14Themes ==
    /\ pc = "filtered"
    /\ LET r == analyze_q14_themes(flow.df_filtered)
       IN  /\ flow' = [flow EXCEPT !.df_filtered = r.df]
           /\ ret' = Some(r.result)
    /\ pc' = "q14_themes"
    /\ UNCHANGED <<raw, df, call, rng, files, now, handlers>>

Next ==
    \/ PrepareVariables
    \/ PrepareVariablesAgain
    \/ ComputeSampleFlow
    \/ ComputeQ14ResponseRate
    \/ AnalyzeQ14Themes

Spec == Init /\ [][Next]_vars

(***************************************************************************)
(* Claims about the sample filter and data preparation                     *)
(***************************************************************************)
Rows(frame) == {frame[i] : i \in 1..Len(frame)}

\* C1: the counts reported by compute_sample_flow satisfy initial_n -
\* excluded_attention - excluded_missing_condition - excluded_missing_donation =
\* final_n, final_n is the number of rows of the returned frame, and the three sets
\* of excluded rows are pairwise disjoint.
SampleFlowAccounting ==
    pc = "filtered" =>
        LET steps == sample_flow_steps(df)
        IN  /\ flow.initial_n - flow.excluded_attention - flow.excluded_missing_condition
                 - flow.excluded_missing_donation = flow.final_n
            /\ flow.final_n = Len(flow.df_filtered)
            /\ flow.initial_n = Len(df)
            /\ steps.failed_attention \cap steps.missing_condition = {}
            /\ steps.failed_attention \cap steps.missing_donation = {}
            /\ steps.missing_condition \cap steps.missing_donation = {}

\* a frame in which every step excludes a row
SampleFlowAccountingWitness ==
    /\ pc = "filtered"
    /\ flow.excluded_attention >= 1
    /\ flow.excluded_missing_condition >= 1
    /\ flow.excluded_missing_donation >= 1

\* C2: every row of the filtered frame has a non-missing condition, a non-missing
\* donation_decision and attention_check_correct = 1, and every row of the derived
\* frame with those three properties is kept.
FilteredSampleIsComplete ==
    pc = "filtered" =>
        /\ \A r \in Rows(flow.df_filtered) :
              /\ ~isna(r.condition)
              /\ ~isna(r.donation_decision)
              /\ r.attention_check_correct = 1
        /\ \A r \in Rows(df) :
              (~isna(r.condition) /\ ~isna(r.donation_decision)
                  /\ r.attention_check_correct = 1) => r \in Rows(flow.df_filtered)

\* a frame of which some rows are kept and some are removed
FilteredSampleIsCompleteWitness ==
    /\ pc = "filtered"
    /\ flow.final_n >= 1
    /\ flow.excluded_missing_donation >= 1
    /\ flow.final_n < flow.initial_n

\* C3: the exclusions are applied in the order attention check, missing condition,
\* missing donation, so every excluded row is counted once, under the first
\* criterion it fails in that order.
ExclusionsCountedInOrder ==
    pc = "filtered" =>
        /\ flow.excluded_attention =
              Cardinality({r \in Rows(df) : r.attention_check_correct = 0})
        /\ flow.excluded_missing_condition =
              Cardinality({r \in Rows(df) :
                  r.attention_check_correct # 0 /\ isna(r.condition)})
        /\ flow.excluded_missing_donation =
              Cardinality({r \in Rows(df) :
                  /\ r.attention_check_correct # 0
                  /\ ~isna(r.condition)
                  /\ isna(r.donation_decision)})

\* a row that fails the attention check and has no donation decision is counted
\* under the attention check only
ExclusionsCountedInOrderWitness ==
    /\ pc = "filtered"
    /\ \E r \in Rows(df) : r.attention_check_correct = 0 /\ isna(r.donation_decision)
    /\ flow.excluded_attention = 1
    /\ flow.excluded_missing_donation = 0

\* C4: every row of the filtered sample has condition in {A, B, C, D} with
\* transparency_level and control_level in {0, 1} (a row with an unmapped condition
\* label is removed by the sample filter).
FilteredConditionsAreMapped ==
    pc = "filtered" =>
        \A r \in Rows(flow.df_filtered) :
            /\ r.condition \in {Some("A"), Some("B"), Some("C"), Some("D")}
            /\ r.transparency_level \in {Some(0), Some(1)}
            /\ r.control_level \in {Some(0), Some(1)}

\* C7: prepare_variables never raises because of the configuration field: the parsed
\* configuration of every row is a mapping and the four fields are extracted.
PrepareNeverRaisesOnConfig ==
    /\ pc # "raised"
    /\ pc \in {"derived", "filtered"} =>
          \A r \in Rows(df) :
              /\ r.dashboard_parsed.t = "dict"
              /\ r.dashboard_scope = r.dashboard_parsed.d["scope"]
              /\ r.dashboard_purpose = r.dashboard_parsed.d["purpose"]
              /\ r.dashboard_storage = r.dashboard_parsed.d["storage"]
              /\ r.dashboard_retention = r.dashboard_parsed.d["retention"]

(***************************************************************************)
(* Calls of the statistics helpers                                         *)
(***************************************************************************)
PredLevels == {0, 5, 6} \cup {(100 * k) \div PredSteps : k \in 1..PredSteps}

InteractionCalls ==
    {[fn |-> "interpret_interaction", pred_df |-> f, p_interaction |-> p] :
        f \in [{"A", "B", "C", "D"} -> PredLevels],
        p \in {<<1, 100>>, <<1, 20>>, <<1, 2>>}}

Tables ==
    UNION {[1..r -> [1..c -> 0..MaxCount]] : r \in {1, 2, 3}, c \in {1, 2}}

TableCalls == {[fn |-> f, table |-> t] : f \in {"cramers_v", "cramers_v_6"}, t \in Tables}

\* tables with three columns: 2 x 3 of counts up to MaxCount, 3 x 3 of counts 0 and 1
WideTables == [1..2 -> [1..3 -> 0..MaxCount]] \cup [1..3 -> [1..3 -> {0, 1}]]

WideTableCalls == {[fn |-> "cramers_v", table |-> t] : t \in WideTables}

\* the end-to-end scenario: 25 participants per condition, 5, 10, 8, 15 donations
ScenarioCounts == <<<<20, 5>>, <<15, 10>>, <<17, 8>>, <<10, 15>>>>

GroupCounts == {<<0, 0>>, <<25, 0>>, <<20, 5>>, <<17, 8>>, <<15, 10>>, <<10, 15>>, <<0, 25>>}

ChiSquareCalls ==
    {[fn |-> "chi_square_test", groups |-> CONDITIONS, counts |-> c] :
        c \in [1..4 -> GroupCounts]}

TextChars == {"a", "b", "A", " "}

Texts ==
    {NullText} \cup {Text(s) : s \in UNION {[1..n -> TextChars] : n \in 0..MaxTextLen}}

KeywordPool == {<<"a">>, <<"a", "b">>, <<"b", "a">>, <<"A">>, <<" ">>}

KeywordLists == UNION {[1..n -> KeywordPool] : n \in 1..MaxKeywords}

Codebooks ==
    {<<>>} \cup
    {<<[theme |-> "t1", keywords |-> k1], [theme |-> "t2", keywords |-> k2]>> :
        k1 \in KeywordLists, k2 \in {<<<<"b">>>>, <<<<"b", "b">>, <<>>>>}}

ThemeCalls ==
    {[fn |-> "code_themes", text |-> t, codebook |-> c] : t \in Texts, c \in Codebooks}

FixedCodebookCalls ==
    {[fn |-> "code_themes", text |-> t, codebook |-> THEME_CODEBOOK] :
        t \in {NullText, Text(<<>>), Text(BlankText), Text(WorriedText),
               Text(UncontrolledText), Text(WorryText), Text(VoteText)}}

PhiCalls == {[fn |-> "phi_coefficient", table |-> t] : t \in Tables}

\* observations of one group, in the order of the frame
Groups == UNION {[1..n -> {0, 1, 3}] : n \in 0..MaxGroup}

CohensDCalls ==
    {[fn |-> f, group1 |-> g1, group2 |-> g2] :
        f \in {"cohens_d", "cohens_d_5"}, g1 \in Groups, g2 \in Groups}

\* U of two groups of n1 and n2 values: a multiple of 1/2 from 0 to n1 * n2
RankBiserialCalls ==
    {c \in [fn : {"rank_biserial_r"}, U : {Rat(h, 2) : h \in 0..(2 * MaxGroup * MaxGroup)},
            n1 : 1..MaxGroup, n2 : 1..MaxGroup] :
        ~RLess(<<c.n1 * c.n2, 1>>, c.U)}

\* fitted models: log-likelihoods -10, -10.5, ... and 0 to MaxParams parameters
FittedModels ==
    [llf : {Rat(-h, 2) : h \in 20..(20 + MaxParams)}, df_model : 0..MaxParams]

LikelihoodRatioCalls ==
    [fn : {"likelihood_ratio_test"}, model_reduced : FittedModels, model_full : FittedModels]

\* p-values of Shapiro-Wilk: below, at and above alpha = 0.05
PValues == {<<1, 100>>, <<1, 20>>, <<3, 5>>}

\* a group of answers with the p-value Shapiro-Wilk has on it (fewer than three
\* answers are never tested)
McGroups ==
    {g \in [values : UNION {[1..n -> {2, 5}] : n \in 1..MaxGroup},
            p : {NA} \cup {Some(q) : q \in PValues}] :
        isna(g.p) <=> Len(g.values) < 3}

CheckMcCalls ==
    [fn : {"check_mc_transparency", "check_mc_control"}, low : McGroups, high : McGroups]

\* states the generator can be in when a helper is called, and one draw later
RngSeeds == {0, 42}

RngReach == RngSeeds \cup {rng_next(s) : s \in RngSeeds}

\* data of 2, 3, 5000 and 5001 observations
NormalityData ==
    {[n |-> 2, p |-> NA, sub |-> <<>>]}
    \cup {[n |-> n, p |-> Some(q), sub |-> <<>>] : n \in {3, SHAPIRO_MAX}, q \in PValues}
    \cup {[n |-> SHAPIRO_MAX + 1, p |-> Some(<<3, 5>>), sub |-> f] : f \in [RngReach -> PValues]}

CheckNormalityCalls == [fn : {"check_normality"}, data : NormalityData]

\* 2 x 2 tables <<a, b>>, <<b, a>>, and a table with a zero column, a table of one
\* row and a table of three columns
CiTables ==
    {<<<<a, b>>, <<b, a>>>> : a \in 0..MaxCount, b \in 1..MaxCount}
    \cup {<<<<0, 2>>, <<0, 2>>>>, <<<<1, 2>>>>, <<<<2, 1, 1>>, <<1, 1, 2>>>>}

CiCalls ==
    [fn : {"cramers_v_ci"}, table : CiTables, confidence : {<<19, 20>>},
     n_bootstrap : {0, MIN_BOOTSTRAP - 1, MIN_BOOTSTRAP, MIN_BOOTSTRAP + 20}]

\* what the optimiser reached on the five design matrices: every pattern of
\* convergence flags, the log-likelihoods growing with the model or all equal to
\* that of the null model
Reached ==
    {[i \in 1..5 |->
        [llf |-> IF grows THEN <<i - 12, 1>> ELSE <<-12, 1>>, llnull |-> <<-12, 1>>,
         llr_pvalue |-> <<1, 2>>, converged |-> c[i], vif |-> Some(<<2, 1>>),
         predict |-> <<1, 2>>]] :
        c \in [1..5 -> BOOLEAN], grows \in BOOLEAN}

Phase3Calls ==
    [fn : {"run_phase3_analysis"}, y : {<<0, 1, 1>>, <<1, 0, 0, 1>>}, reached : Reached]

WilsonCalls ==
    {c \in [fn : {"wilson_ci"}, successes : 0..MaxTrials, n : 0..MaxTrials] :
        c.successes <= c.n}

\* votes that differ in title, date and result
VoteRows ==
    {[titel_kurz_d |-> Some(<<"T", "a", "x">>), titel_kurz_f |-> NA, titel_kurz_e |-> NA,
      titel_off_d |-> NA, stichwort |-> NA, datum |-> d, volkja |-> v] :
        d \in {NA, Some(<<9, 2, 2025>>), Some(<<30, 11, 2025>>), Some(<<18, 5, 2027>>)},
        v \in {NA, Some(1)}}
        \cup {[titel_kurz_d |-> Some(<<"T", "o", "l", "l">>), titel_kurz_f |-> NA,
               titel_kurz_e |-> NA, titel_off_d |-> NA, stichwort |-> Some(<<"t", "a", "x">>),
               datum |-> Some(<<31, 2, 2025>>), volkja |-> Some(0)]}

WithAnr(f) == [i \in DOMAIN f |-> [anr |-> i] @@ f[i]]

Today == datetime(2026, 11, 1)

SearchCalls ==
    {[fn |-> "search_votes", df |-> WithAnr(f), keyword |-> k, include_historical |-> h,
      today |-> Today] :
        f \in UNION {[1..n -> VoteRows] : n \in 0..MaxVotes},
        k \in {<<"T", "a", "x">>, <<"o">>},
        h \in BOOLEAN}

InitStats ==
    /\ pc = "call"
    /\ \/ call \in CheckNormalityCalls /\ rng \in RngSeeds
       \/ call \in CiCalls /\ rng \in RngSeeds
       \/ call \in Phase3Calls /\ rng = 0
       \/ call \in SearchCalls /\ rng = 0
       \/ call \in InteractionCalls /\ rng = 0
       \/ call \in TableCalls /\ rng = 0
       \/ call \in WideTableCalls /\ rng = 0
       \/ call \in ChiSquareCalls /\ rng = 0
       \/ call \in ThemeCalls /\ rng = 0
       \/ call \in FixedCodebookCalls /\ rng = 0
       \/ call \in WilsonCalls /\ rng = 0
       \/ call \in PhiCalls /\ rng = 0
       \/ call \in CohensDCalls /\ rng = 0
       \/ call \in RankBiserialCalls /\ rng = 0
       \/ call \in LikelihoodRatioCalls /\ rng = 0
       \/ call \in CheckMcCalls /\ rng = 0
    /\ ret = NA
    /\ raw = <<>>
    /\ df = <<>>
    /\ flow = NoFlow
    /\ files = NoFiles
    /\ now = 0
    /\ handlers = <<>>

InterpretInteraction ==
    /\ pc = "call"
    /\ call.fn = "interpret_interaction"
    /\ ret' = interpret_interaction(call.pred_df, call.p_interaction)
    /\ pc' = "return"
    /\ UNCHANGED <<raw, df, flow, call, rng, files, now, handlers>>

CramersV ==
    /\ pc = "call"
    /\ call.fn = "cramers_v"
    /\ ret' = cramers_v(call.table)
    /\ pc' = "return"
    /\ UNCHANGED <<raw, df, flow, call, rng, files, now, handlers>>

CramersV6 ==
    /\ pc = "call"
    /\ call.fn = "cramers_v_6"
    /\ ret' = cramers_v_6(call.table)
    /\ pc' = "return"
    /\ UNCHANGED <<raw, df, flow, call, rng, files, now, handlers>>

CodeThemes ==
    /\ pc = "call"
    /\ call.fn = "code_themes"
    /\ ret' = code_themes(call.text, call.codebook)
    /\ pc' = "return"
    /\ UNCHANGED <<raw, df, flow, call, rng, files, now, handlers>>

ChiSquareTest ==
    /\ pc = "call"
    /\ call.fn = "chi_square_test"
    /\ ret' = chi_square_test(call.groups, call.counts)
    /\ pc' = "return"
    /\ UNCHANGED <<raw, df, flow, call, rng, files, now, handlers>>

\* run_phase2_analysis reports interpret_cramers_v(r['cramers_v']) of a test result
InterpretCramersV ==
    /\ pc = "return"
    /\ call.fn = "chi_square_test"
    /\ ~ret.raised
    /\ ret' = [ret EXCEPT !.effect = interpret_cramers_v(ret.cramers_v)]
    /\ pc' = "reported"
    /\ UNCHANGED <<raw, df, flow, call, rng, files, now, handlers>>

WilsonCI ==
    /\ pc = "call"
    /\ call.fn = "wilson_ci"
    /\ ret' = wilson_ci(call.successes, call.n)
    /\ pc' = "return"
    /\ UNCHANGED <<raw, df, flow, call, rng, files, now, handlers>>

PhiCoefficient ==
    /\ pc = "call"
    /\ call.fn = "phi_coefficient"
    /\ ret' = phi_coefficient(call.table)
    /\ pc' = "return"
    /\ UNCHANGED <<raw, df, flow, call, rng, files, now, handlers>>

CohensD ==
    /\ pc = "call"
    /\ call.fn = "cohens_d"
    /\ ret' = <<cohens_d(call.group1, call.group2)>>
    /\ pc' = "return"
    /\ UNCHANGED <<raw, df, flow, call, rng, files, now, handlers>>

CohensD5 ==
    /\ pc = "call"
    /\ call.fn = "cohens_d_5"
    /\ ret' = <<cohens_d_5(call.group1, call.group2)>>
    /\ pc' = "return"
    /\ UNCHANGED <<raw, df, flow, call, rng, files, now, handlers>>

\* the same helper called again with the two groups exchanged
CohensDExchanged ==
    /\ pc = "return"
    /\ call.fn \in {"cohens_d", "cohens_d_5"}
    /\ ret' = Append(ret, IF call.fn = "cohens_d"
                          THEN cohens_d(call.group2, call.group1)
                          ELSE cohens_d_5(call.group2, call.group1))
    /\ pc' = "return2"
    /\ UNCHANGED <<raw, df, flow, call, rng, files, now, handlers>>

RankBiserialR ==
    /\ pc = "call"
    /\ call.fn = "rank_biserial_r"
    /\ ret' = rank_biserial_r(call.U, call.n1, call.n2)
    /\ pc' = "return"
    /\ UNCHANGED <<raw, df, flow, call, rng, files, now, handlers>>

LikelihoodRatioTest ==
    /\ pc = "call"
    /\ call.fn = "likelihood_ratio_test"
    /\ ret' \in likelihood_ratio_test(call.model_reduced, call.model_full)
    /\ pc' = "return"
    /\ UNCHANGED <<raw, df, flow, call, rng, files, now, handlers>>

CheckMcTransparency ==
    /\ pc = "call"
    /\ call.fn = "check_mc_transparency"
    /\ \E r \in {check_mc_transparency(call.low, call.high, rng)} :
           ret' = r[1] /\ rng' = r[2]
    /\ pc' = "return"
    /\ UNCHANGED <<raw, df, flow, call, files, now, handlers>>

CheckMcControl ==
    /\ pc = "call"
    /\ call.fn = "check_mc_control"
    /\ \E r \in {check_mc_control(call.low, call.high, rng)} :
           ret' = r[1] /\ rng' = r[2]
    /\ pc' = "return"
    /\ UNCHANGED <<raw, df, flow, call, files, now, handlers>>

CheckNormality ==
    /\ pc = "call"
    /\ call.fn = "check_normality"
    /\ LET r == check_normality(call.data, rng)
       IN  /\ ret' = <<[is_normal |-> r.is_normal, p |-> r.p]>>
           /\ rng' = r.rng
    /\ pc' = "return"
    /\ UNCHANGED <<raw, df, flow, call, files, now, handlers>>

\* the same call again, in the state the first call left the generator in
CheckNormalityAgain ==
    /\ pc = "return"
    /\ call.fn = "check_normality"
    /\ LET r == check_normality(call.data, rng)
       IN  /\ ret' = Append(ret, [is_normal |-> r.is_normal, p |-> r.p])
           /\ rng' = r.rng
    /\ pc' = "return2"
    /\ UNCHANGED <<raw, df, flow, call, files, now, handlers>>

CramersVCi ==
    /\ pc = "call"
    /\ call.fn = "cramers_v_ci"
    /\ \E r \in {cramers_v_ci(call.table, call.confidence, call.n_bootstrap, rng)} :
           ret' = <<r[1]>> /\ rng' = r[2]
    /\ pc' = "return"
    /\ UNCHANGED <<raw, df, flow, call, files, now, handlers>>

\* the same call again, in the state the first call left the generator in
CramersVCiAgain ==
    /\ pc = "return"
    /\ call.fn = "cramers_v_ci"
    /\ \E r \in {cramers_v_ci(call.table, call.confidence, call.n_bootstrap, rng)} :
           ret' = Append(ret, r[1]) /\ rng' = r[2]
    /\ pc' = "return2"
    /\ UNCHANGED <<raw, df, flow, call, files, now, handlers>>

RunPhase3Analysis ==
    /\ pc = "call"
    /\ call.fn = "run_phase3_analysis"
    /\ ret' \in run_phase3_analysis(call.y, call.reached)
    /\ pc' = "return"
    /\ UNCHANGED <<raw, df, flow, call, rng, files, now, handlers>>

SearchVotes ==
    /\ pc = "call"
    /\ call.fn = "search_votes"
    /\ ret' = search_votes(call.df, call.keyword, call.include_historical, call.today)
    /\ pc' = "return"
    /\ UNCHANGED <<raw, df, flow, call, rng, files, now, handlers>>

NextStats ==
    \/ InterpretInteraction
    \/ CramersV
    \/ CramersV6
    \/ CodeThemes
    \/ ChiSquareTest
    \/ InterpretCramersV
    \/ WilsonCI
    \/ PhiCoefficient
    \/ CohensD
    \/ CohensD5
    \/ CohensDExchanged
    \/ RankBiserialR
    \/ LikelihoodRatioTest
    \/ CheckMcTransparency
    \/ CheckMcControl
    \/ CheckNormality
    \/ CheckNormalityAgain
    \/ CramersVCi
    \/ CramersVCiAgain
    \/ RunPhase3Analysis
    \/ SearchVotes

SpecStats == InitStats /\ [][NextStats]_vars

(***************************************************************************)
(* python-service: a sequence of fetch_csv calls                           *)
(***************************************************************************)
\* a body of no bytes, bytes that are no UTF-8 text, and two releases of the
\* dataset (no line has more fields than the header)
EmptyBody == [utf8 |-> TRUE, lines |-> <<>>]

BinaryBody == [utf8 |-> FALSE, lines |-> <<>>]

Header == <<"anr", "datum", "volkja">>

Release1 == [utf8 |-> TRUE, lines |-> <<Header, <<"677", "09.02.2025", "1">>>>]

Release2 ==
    [utf8 |-> TRUE,
     lines |-> <<Header, <<"677", "09.02.2025", "1">>, <<"678", "18.05.2027">>>>]

Bodies == {EmptyBody, BinaryBody, Release1, Release2}

Responses ==
    {[error |-> TRUE, status_code |-> 0, content |-> EmptyBody],
     [error |-> FALSE, status_code |-> 500, content |-> EmptyBody]}
        \cup {[error |-> FALSE, status_code |-> 200, content |-> b] : b \in Bodies}

InitCsv ==
    /\ pc = "service"
    /\ files = NoFiles
    /\ now = 0
    /\ call = NoCall
    /\ ret = NA
    /\ raw = <<>>
    /\ df = <<>>
    /\ flow = NoFlow
    /\ rng = 0
    /\ handlers = <<>>

\* one request handler calls fetch_csv
FetchCsv ==
    /\ pc = "service"
    /\ \E force_refresh \in BOOLEAN, response \in Responses :
          LET r == fetch_csv(force_refresh, response, files, now)
          IN  /\ call' = [fn |-> "fetch_csv", force_refresh |-> force_refresh,
                          response |-> response]
              /\ files' = r.files
              /\ ret' = r.ret
    /\ UNCHANGED <<pc, raw, df, flow, rng, now, handlers>>

\* time passes between two requests: a day, or the maximal age of the cache
Tick ==
    /\ pc = "service"
    /\ \E days \in {1, CACHE_MAX_AGE_DAYS} :
          /\ now + days <= MaxDays
          /\ now' = now + days
    /\ UNCHANGED <<pc, raw, df, flow, call, ret, rng, files, handlers>>

NextCsv ==
    \/ FetchCsv
    \/ Tick

SpecCsv == InitCsv /\ [][NextCsv]_vars

(***************************************************************************)
(* python-service: request handlers running download_and_extract_pdf       *)
(***************************************************************************)
Digits == <<"1", "2", "3", "4">>

\* the document of handler h: the handlers ask for distinct documents
Document(h) ==
    [anr |-> <<"6", "8", ".", Digits[h]>>,
     doc_type |-> PDF_DOC_TYPES[((h - 1) % Len(PDF_DOC_TYPES)) + 1],
     lang |-> "de"]

Page == <<"J", "a">>

PdfResponses ==
    {[error |-> TRUE, status_code |-> 0, pdf |-> FALSE, pages |-> <<>>],
     [error |-> FALSE, status_code |-> 404, pdf |-> FALSE, pages |-> <<>>],
     [error |-> FALSE, status_code |-> 200, pdf |-> TRUE, pages |-> <<<<>>>>],
     [error |-> FALSE, status_code |-> 200, pdf |-> TRUE, pages |-> <<Page>>],
     [error |-> FALSE, status_code |-> 200, pdf |-> TRUE, pages |-> <<Page, <<>>, Page>>]}

Handlers == 1..MaxHandlers

InitPdf ==
    /\ pc = "service"
    /\ files = NoFiles
    /\ now = 0
    /\ handlers = [h \in Handlers |->
                      [pc |-> "start", anr |-> Document(h).anr,
                       doc_type |-> Document(h).doc_type, lang |-> Document(h).lang,
                       force |-> FALSE, text |-> <<>>, meta |-> <<>>, ret |-> NA]]
    /\ call = NoCall
    /\ ret = NA
    /\ raw = <<>>
    /\ df = <<>>
    /\ flow = NoFlow
    /\ rng = 0

\* lines 82-131: the cached text is returned if there is one; otherwise the
\* document is downloaded and its text extracted
Download ==
    \E h \in Handlers :
        LET f == handlers[h]
            cache_path == _get_cache_path(f.anr, f.doc_type, f.lang)
        IN  /\ f.pc = "start"
            /\ \E response \in PdfResponses :
                  LET text == extract_text(response)
                  IN  handlers' =
                          [handlers EXCEPT ![h] =
                              IF ~f.force /\ cache_path \in DOMAIN files.PDF_CACHE_DIR
                              THEN [f EXCEPT !.pc = "done",
                                             !.ret = Some(files.PDF_CACHE_DIR[cache_path])]
                              ELSE IF text = NA
                              THEN [f EXCEPT !.pc = "done", !.ret = NA]
                              ELSE [f EXCEPT !.pc = "write_text", !.text = Val(text)]]
            /\ UNCHANGED <<pc, raw, df, flow, call, ret, rng, files, now>>

\* lines 134-135: the text is written to the cache file
WriteText ==
    \E h \in Handlers :
        LET f == handlers[h]
            cache_path == _get_cache_path(f.anr, f.doc_type, f.lang)
        IN  /\ f.pc = "write_text"
            /\ files' = [files EXCEPT
                            !.PDF_CACHE_DIR = setitem(files.PDF_CACHE_DIR, cache_path, f.text)]
            /\ handlers' = [handlers EXCEPT ![h].pc = "load_meta"]
            /\ UNCHANGED <<pc, raw, df, flow, call, ret, rng, now>>

\* lines 138-143: meta = _load_cache_meta(); meta[key] = {...}
LoadCacheMeta ==
    \E h \in Handlers :
        LET f == handlers[h]
            entry == [cached_at |-> now,
                      url |-> _get_pdf_url(f.anr, f.doc_type, f.lang),
                      size |-> Len(f.text)]
        IN  /\ f.pc = "load_meta"
            /\ handlers' =
                   [handlers EXCEPT
                       ![h].pc = "save_meta",
                       ![h].meta = setitem(_load_cache_meta(files),
                                           meta_key(f.anr, f.doc_type, f.lang), entry)]
            /\ UNCHANGED <<pc, raw, df, flow, call, ret, rng, files, now>>

\* line 59: _save_cache_meta opens the metadata file for writing
OpenCacheMeta ==
    \E h \in Handlers :
        /\ handlers[h].pc = "save_meta"
        /\ files' = open_w(files)
        /\ handlers' = [handlers EXCEPT ![h].pc = "dump"]
        /\ UNCHANGED <<pc, raw, df, flow, call, ret, rng, now>>

\* lines 60, 146-147: the metadata is written, the text returned
DumpCacheMeta ==
    \E h \in Handlers :
        /\ handlers[h].pc = "dump"
        /\ files' = json_dump(files, handlers[h].meta)
        /\ handlers' = [handlers EXCEPT ![h].pc = "done",
                                        ![h].ret = Some(handlers[h].text)]
        /\ UNCHANGED <<pc, raw, df, flow, call, ret, rng, now>>

\* the /api/pdf/stats handler
GetCachedPdfStats ==
    /\ pc = "service"
    /\ handlers # <<>>
    /\ call' = [fn |-> "get_cached_pdf_stats"]
    /\ ret' = Some(get_cached_pdf_stats(files))
    /\ UNCHANGED <<pc, raw, df, flow, rng, files, now, handlers>>

NextPdf ==
    \/ Download
    \/ WriteText
    \/ LoadCacheMeta
    \/ OpenCacheMeta
    \/ DumpCacheMeta
    \/ GetCachedPdfStats

SpecPdf == InitPdf /\ [][NextPdf]_vars

(***************************************************************************)
(* Claims about the statistics helpers                                     *)
(***************************************************************************)
Returned(fn) == pc = "return" /\ call.fn = fn

\* the interaction magnitude in percentage points, from the predicted percentages
MagnitudePP(pred) == (pred["D"] - pred["C"]) - (pred["B"] - pred["A"])

\* C5: interpret_interaction computes the magnitude (P(D) - P(C)) - (P(B) - P(A)) and
\* classifies it as synergistic above +5 percentage points, antagonistic below -5
\* percentage points and additive otherwise.
InteractionClassifiedAtFivePoints ==
    Returned("interpret_interaction") =>
        /\ ret.interaction_magnitude = Rat(MagnitudePP(call.pred_df), 100)
        /\ ret.pattern =
              IF MagnitudePP(call.pred_df) > 5 THEN "synergistic"
              ELSE IF MagnitudePP(call.pred_df) < -5 THEN "antagonistic"
              ELSE "additive"

\* a contingency table with no data, a single row or column, or a zero margin
Degenerate(t) ==
    \/ TableSum(t) = 0
    \/ Min(NRows(t) - 1, NCols(t) - 1) = 0
    \/ \E i \in 1..NRows(t) : RowSum(t, i) = 0
    \/ \E j \in 1..NCols(t) : ColSum(t, j) = 0

\* C6: both cramers_v implementations return exactly 0 and never raise on every
\* degenerate contingency table.
CramersVZeroOnDegenerate ==
    (pc = "return" /\ call.fn \in {"cramers_v", "cramers_v_6"} /\ Degenerate(call.table)) =>
        ~ret.raised /\ ret.V2 = <<0, 1>>

\* the keyword occurs in the text: the text is some prefix, the keyword, some suffix
Occurs(keyword, text) ==
    \E a \in 0..Len(text) : \E b \in a..Len(text) : SubSeq(text, a + 1, b) = keyword

ThemeMatches(entry, text) ==
    \E k \in 1..Len(entry.keywords) : Occurs(entry.keywords[k], lower(text.s))

IsBlank(text) == text.na \/ \A i \in 1..Len(text.s) : text.s[i] = " "

\* C8: code_themes returns exactly the themes with at least one keyword occurring as
\* a substring of the lower-cased text, each once and in codebook order; null, empty
\* and whitespace-only text yield no themes.
ThemesAreKeywordMatches ==
    Returned("code_themes") =>
        IF IsBlank(call.text) THEN ret = <<>>
        ELSE /\ \A e \in Rows(call.codebook) :
                    ThemeMatches(e, call.text) <=> (\E i \in 1..Len(ret) : ret[i] = e.theme)
             /\ \A i \in 1..Len(ret) : \E e \in Rows(call.codebook) : e.theme = ret[i]
             /\ \A i, j \in 1..Len(ret) :
                    i < j => \E a, b \in 1..Len(call.codebook) :
                                /\ a < b
                                /\ call.codebook[a].theme = ret[i]
                                /\ call.codebook[b].theme = ret[j]

\* a mixed-case text matched by the second of two keywords, inside a longer word
ThemesAreKeywordMatchesWitness ==
    /\ Returned("code_themes")
    /\ call.text = Text(<<"b", "A", "b">>)
    /\ call.codebook # <<>>
    /\ call.codebook[1].keywords = <<<<"A">>, <<"a", "b">>>>
    /\ ret = <<"t1", "t2">>

Includes(themes, theme) == \E i \in 1..Len(themes) : themes[i] = theme

FixedCodebookCall(s) ==
    Returned("code_themes") /\ call.codebook = THEME_CODEBOOK /\ call.text = s

\* C9 as stated: with THEME_CODEBOOK the text "I am worried about privacy and control"
\* includes risk, control and general_privacy; the empty string and null give no theme.
WorriedTextIncludesRisk ==
    /\ FixedCodebookCall(Text(WorriedText)) =>
          /\ Includes(ret, "risk")
          /\ Includes(ret, "control")
          /\ Includes(ret, "general_privacy")
    /\ (FixedCodebookCall(Text(<<>>)) \/ FixedCodebookCall(NullText)) => ret = <<>>

\* C9 as amended: with THEME_CODEBOOK the text "I am worried about privacy and control"
\* yields exactly control and general_privacy (not risk: "worried" does not contain
\* "worry"); the empty string and null give no theme.
WorriedTextThemes ==
    /\ FixedCodebookCall(Text(WorriedText)) => ret = <<"control", "general_privacy">>
    /\ (FixedCodebookCall(Text(<<>>)) \/ FixedCodebookCall(NullText)) => ret = <<>>

WorriedTextThemesWitness == FixedCodebookCall(Text(WorriedText)) /\ Len(ret) = 2

\* C10: for 25 participants in each of A, B, C, D with 5, 10, 8, 15 donations,
\* chi_square_test reports donation rates 20%, 40%, 32%, 60% and 3 degrees of freedom,
\* and a Cramer's V strictly between 0 and 1 that interpret_cramers_v labels medium or
\* large.
ScenarioChiSquare ==
    (pc \in {"return", "reported"} /\ call.fn = "chi_square_test"
        /\ call.counts = ScenarioCounts) =>
        /\ ~ret.raised
        /\ [i \in 1..Len(ret.donation_rates) |-> ret.donation_rates[i].Rate]
              = <<<<20, 1>>, <<40, 1>>, <<32, 1>>, <<60, 1>>>>
        /\ [i \in 1..Len(ret.donation_rates) |-> ret.donation_rates[i].Group] = CONDITIONS
        /\ ret.df = 3
        /\ RLess(<<0, 1>>, ret.cramers_v) /\ RLess(ret.cramers_v, <<1, 1>>)
        /\ pc = "reported" => ret.effect \in {"medium", "large"}

ScenarioChiSquareWitness ==
    pc = "reported" /\ call.fn = "chi_square_test" /\ call.counts = ScenarioCounts

(***************************************************************************)
(* Claims about the effect sizes and intervals                             *)
(***************************************************************************)
\* the float f times the integer n, exactly
Scaled(f, n) == <<f[1] * n, f[2]>>

\* C11: wilson_ci(k, n) returns (lower, upper) with
\* 0 <= lower <= k/n <= upper <= 1 when n >= 1 and 0 <= k <= n, and exactly
\* (0.0, 0.0) when n = 0.
WilsonBracketsProportion ==
    Returned("wilson_ci") =>
        IF call.n = 0 THEN ret = <<FZero, FZero>>
        ELSE /\ FLessEq(FZero, ret[1])
             /\ FLessEq(Scaled(ret[1], call.n), <<call.successes, 0>>)
             /\ FLessEq(<<call.successes, 0>>, Scaled(ret[2], call.n))
             /\ FLessEq(ret[2], FInt(1))

DegeneratePhi(t) ==
    \/ NRows(t) < 2
    \/ NCols(t) < 2
    \/ \E i \in 1..NRows(t) : RowSum(t, i) = 0
    \/ \E j \in 1..NCols(t) : ColSum(t, j) = 0

\* C13: phi_coefficient returns phi = (ad - bc) / sqrt((a+b)(c+d)(a+c)(b+d)) with
\* -1 <= phi <= 1 on every 2 x 2 table, and exactly 0, without raising, on every
\* degenerate table (a zero margin, or fewer than two rows or columns).
PhiCoefficientTotal ==
    Returned("phi_coefficient") =>
        LET t == call.table
        IN  /\ ~ret.raised
            /\ DegeneratePhi(t) => ret.phi = RootZero
            /\ (NRows(t) = 2 /\ NCols(t) = 2 /\ ~DegeneratePhi(t)) =>
                    LET ad_bc == t[1][1] * t[2][2] - t[1][2] * t[2][1]
                        margins == RowSum(t, 1) * RowSum(t, 2) * ColSum(t, 1) * ColSum(t, 2)
                    IN  /\ ret.phi[1] = Sign(ad_bc)
                        /\ ret.phi[2] = Rat(ad_bc * ad_bc, margins)
                        /\ ~RLess(<<1, 1>>, ret.phi[2])

Constant(g) == \A i, j \in 1..Len(g) : g[i] = g[j]

\* the pooled standard deviation of two groups is a number: both variances exist
PooledDefined(g1, g2) == Len(g1) >= 2 /\ Len(g2) >= 2

\* C14: Cohen's d is antisymmetric, in phase 3 and in phase 5: with a positive
\* pooled standard deviation cohens_d(g1, g2) is the negation of cohens_d(g2, g1)
\* and both have the same interpretation; with a pooled standard deviation of 0
\* both are 0.
CohensDAntisymmetric ==
    (pc = "return2" /\ call.fn \in {"cohens_d", "cohens_d_5"}
        /\ PooledDefined(call.group1, call.group2)) =>
        /\ ~ret[1].raised /\ ~ret[2].raised
        /\ IF Constant(call.group1) /\ Constant(call.group2)
           THEN ret[1].d = RootZero /\ ret[2].d = RootZero
           ELSE /\ ret[2].d = <<-ret[1].d[1], ret[1].d[2]>>
                /\ ret[2].interpretation = ret[1].interpretation
                /\ ret[1].d[1] = Sign(SumSeq(call.group1) * Len(call.group2)
                                      - SumSeq(call.group2) * Len(call.group1))

\* two groups of different sizes and variances with different means
CohensDAntisymmetricWitness ==
    /\ pc = "return2"
    /\ call.fn = "cohens_d_5"
    /\ Len(call.group1) = 2 /\ Len(call.group2) = 3
    /\ ~Constant(call.group1)
    /\ ret[1].d[1] = 1
    /\ ret[2].d[1] = -1
    /\ ret[1].interpretation = "medium"

LikelihoodRatioResult ==
    Returned("likelihood_ratio_test") =>
        LET reduced == call.model_reduced
            full == call.model_full
        IN  /\ RAdd(ret.chi2, RAdd(reduced.llf, reduced.llf)) = RAdd(full.llf, full.llf)
            /\ ret.df + reduced.df_model = full.df_model
            /\ ~isna(ret.p_value)
            /\ ~RLess(Val(ret.p_value), <<0, 1>>)
            /\ ~RLess(<<1, 1>>, Val(ret.p_value))
            /\ ~RLess(full.llf, reduced.llf) => RSign(ret.chi2) >= 0
            /\ ret.df <= 0 => ret.p_value = Some(<<1, 1>>)

\* a better fitting full model with more parameters, and a p-value inside (0, 1)
LikelihoodRatioResultWitness ==
    /\ Returned("likelihood_ratio_test")
    /\ ret.df = 2
    /\ RSign(ret.chi2) = 1
    /\ ret.p_value = Some(<<1, 20>>)

\* Shapiro-Wilk p > 0.05 on at least three observations
JudgedNormal(group) == Len(group.values) >= 3 /\ RLess(<<1, 20>>, Val(group.p))

\* C17: check_mc_transparency and check_mc_control take the parametric path
\* (t-test, Cohen's d) exactly when both groups are judged normal, and otherwise
\* Mann-Whitney U with rank-biserial r; 'test' and 'effect_metric' of the
\* returned record name the path taken.
ManipulationCheckPath ==
    (pc = "return" /\ call.fn \in {"check_mc_transparency", "check_mc_control"}) =>
        LET low == call.low.values
            high == call.high.values
        IN  IF JudgedNormal(call.low) /\ JudgedNormal(call.high)
            THEN /\ ret.test = "t-test"
                 /\ ret.effect_metric = "Cohen's d"
                 /\ ret.effect_size = cohens_d_5(high, low).d
            ELSE /\ ret.test = "Mann-Whitney U"
                 /\ ret.effect_metric = "rank-biserial r"
                 /\ ret.effect_size =
                        rank_biserial_r(mannwhitneyu(high, low), Len(high), Len(low)).r

\* one group passes Shapiro-Wilk, the other has two observations only
ManipulationCheckPathWitness ==
    /\ Returned("check_mc_transparency")
    /\ Len(call.low.values) = 2
    /\ JudgedNormal(call.high)
    /\ ret.test = "Mann-Whitney U"
    /\ ret.effect_size = <<1, 1>>

\* C18: on more than 5000 observations check_normality draws its subsample with
\* a fixed seed, so two calls on the same data return the same result whatever
\* the state of the random generator.
NormalityReproducible ==
    (pc = "return2" /\ call.fn = "check_normality") => ret[1] = ret[2]

(***************************************************************************)
(* Claims about the bootstrap interval of Cramer's V                       *)
(***************************************************************************)
\* x is the value of rank r (1 = smallest) among the values of the sequence a
HasRank(x, a, r) ==
    /\ Cardinality({i \in 1..Len(a) : RLess(a[i], x)}) < r
    /\ r <= Cardinality({i \in 1..Len(a) : ~RLess(x, a[i])})

\* b is the q-th percentile of a: it lies between the values of the two ranks
\* around position q / 100 * (len(a) - 1), at the fraction of that position
IsPercentile(b, a, q) ==
    LET pos == RMul(RDiv(q, <<100, 1>>), <<Len(a) - 1, 1>>)
        k == pos[1] \div pos[2]
    IN  \E i, j \in 1..Len(a) :
            /\ HasRank(a[i], a, k + 1)
            /\ IF k + 2 <= Len(a) THEN HasRank(a[j], a, k + 2) ELSE j = i
            /\ b = Between(a[i], a[j], RSub(pos, <<k, 1>>))

\* C19: when cramers_v_ci returns, n_bootstrap tables were drawn and the collected
\* values are those of the drawn tables without a zero row or column margin, in
\* the order drawn (so at most n_bootstrap of them); the observed V is returned;
\* with fewer than 100 collected values the interval is (0.0, 1.0), otherwise its
\* bounds are the 2.5th and 97.5th percentile (for confidence 0.95) of the
\* collected values.
BootstrapInterval ==
    (pc = "return" /\ call.fn = "cramers_v_ci" /\ ~ret[1].raised) =>
        LET r == ret[1]
            kept == SelectSeq(r.resamples, valid_table)
            half == RMul(RDiv(RSub(<<1, 1>>, call.confidence), <<2, 1>>), <<100, 1>>)
        IN  /\ Len(r.resamples) = call.n_bootstrap
            /\ Len(r.bootstrap_vs) = Len(kept)
            /\ \A k \in 1..Len(kept) : r.bootstrap_vs[k] = cramers_v(kept[k]).V2
            /\ Len(r.bootstrap_vs) <= call.n_bootstrap
            /\ r.V = cramers_v(call.table).V2
            /\ IF Len(r.bootstrap_vs) < 100
               THEN /\ r.ci_lower = [lo |-> <<0, 1>>, hi |-> <<0, 1>>, frac |-> <<0, 1>>]
                    /\ r.ci_upper = [lo |-> <<1, 1>>, hi |-> <<1, 1>>, frac |-> <<0, 1>>]
               ELSE /\ IsPercentile(r.ci_lower, r.bootstrap_vs, half)
                    /\ IsPercentile(r.ci_upper, r.bootstrap_vs, RSub(<<100, 1>>, half))

\* at least 100 values collected although some drawn table had a zero margin, and
\* the two percentiles differ
BootstrapIntervalWitness ==
    /\ pc = "return"
    /\ call.fn = "cramers_v_ci"
    /\ ~ret[1].raised
    /\ Len(ret[1].bootstrap_vs) >= 100
    /\ Len(ret[1].bootstrap_vs) < call.n_bootstrap
    /\ ret[1].ci_lower # ret[1].ci_upper

\* a * b modulo 65537, by doubling
RECURSIVE MulMod(_, _)
MulMod(a, b) ==
    IF b = 0 THEN 0 ELSE (2 * MulMod(a, b \div 2) + (b % 2) * a) % 65537

\* b^n modulo 65537, by squaring
RECURSIVE PowMod(_, _)
PowMod(b, n) ==
    IF n = 0 THEN 1
    ELSE LET h == PowMod(b, n \div 2)
         IN  MulMod(MulMod(h, h), IF n % 2 = 1 THEN b ELSE 1)

\* the generator state n draws after state: a draw takes state + 1 to
\* 75 * (state + 1) modulo 65537
Advance(state, n) == (MulMod(state + 1, PowMod(75, n)) + 65536) % 65537

\* C20: two calls of cramers_v_ci with the same table, confidence and n_bootstrap
\* return the same (V, lower, upper) whatever state the generator was in before
\* each, and the generator is seeded once per call: it is left where all the
\* draws of the n_bootstrap resamples, made one after the other from the seed 42,
\* lead.
BootstrapReproducible ==
    (pc = "return2" /\ call.fn = "cramers_v_ci") =>
        /\ ret[1].raised = ret[2].raised
        /\ ret[1].V = ret[2].V
        /\ ret[1].ci_lower = ret[2].ci_lower
        /\ ret[1].ci_upper = ret[2].ci_upper
        /\ ~ret[2].raised =>
               rng = Advance(42, call.n_bootstrap * TableSum(call.table))

\* a second call returned, at least 100 values collected, the tables drawn in one
\* call not all the same
BootstrapReproducibleWitness ==
    /\ pc = "return2"
    /\ call.fn = "cramers_v_ci"
    /\ Len(ret[2].bootstrap_vs) >= 100
    /\ \E i, j \in 1..Len(ret[2].resamples) : ret[2].resamples[i] # ret[2].resamples[j]
    /\ ret[2].ci_lower # ret[2].ci_upper

PhaseFunctionsOnlyRead ==
    [][pc = "filtered" => flow'.df_filtered = flow.df_filtered]_vars

(***************************************************************************)
(* Claims about the logistic models of phase 3                             *)
(***************************************************************************)
\* C23: the record of every fitted model reports log-likelihood, null
\* log-likelihood, AIC and BIC, a Nagelkerke R2 and a Hosmer-Lemeshow statistic,
\* and the Nagelkerke R2 lies in [0, 1] when the fit converged and the null
\* log-likelihood is below the fitted one.
ModelsReportNagelkerke ==
    Returned("run_phase3_analysis") =>
        \A i \in 1..5 :
            LET m == ret.results[MODEL_KEYS[i]]
            IN  /\ {"ll", "ll_null", "aic", "bic", "nagelkerke_r2", "hosmer_lemeshow"}
                       \subseteq DOMAIN m
                /\ (m.converged /\ RLess(m.ll_null, m.ll)) =>
                       /\ ~RLess(m.nagelkerke_r2, <<0, 1>>)
                       /\ ~RLess(<<1, 1>>, m.nagelkerke_r2)

Predictors(m) ==
    {m.coef_table.Variable[i] : i \in 1..Len(m.coef_table.Variable)} \ {"const"}

\* C27: each of the three likelihood-ratio tests is of two models with the
\* predictors of the reduced one a strict subset of those of the full one, and its
\* df is the number of predictors added: 1, 1 and 3 (so Model 2 is the reduced model
\* of no comparison it is not nested in).
ComparisonsAreNested ==
    Returned("run_phase3_analysis") =>
        /\ Len(ret.model_comparisons) = 3
        /\ \A j \in 1..3 :
               LET reduced == Predictors(ret.results[ret.compared[j].reduced])
                   full == Predictors(ret.results[ret.compared[j].full])
               IN  /\ reduced \subseteq full
                   /\ reduced # full
                   /\ ret.model_comparisons[j].df = Cardinality(full \ reduced)
                   /\ ret.model_comparisons[j].df = <<1, 1, 3>>[j]
                   /\ ret.compared[j].reduced = "model2" => "control_level" \in full

\* the three tests made on growing log-likelihoods, the last one significant
ComparisonsAreNestedWitness ==
    /\ Returned("run_phase3_analysis")
    /\ RSign(ret.model_comparisons[1].chi2) = 1
    /\ ret.model_comparisons[3].df = 3
    /\ ret.model_comparisons[3].Significant = "Yes"


(***************************************************************************)
(* Claims about the derived columns                                        *)
(***************************************************************************)
\* the composite c of the items a and b, case by case
IsMeanOfPresent(a, b, c) ==
    /\ (~isna(a) /\ ~isna(b)) => c = Rat(Val(a) + Val(b), 2)
    /\ (~isna(a) /\ isna(b)) => c = Rat(Val(a), 1)
    /\ (isna(a) /\ ~isna(b)) => c = Rat(Val(b), 1)
    /\ (isna(a) /\ isna(b)) => c = NA

\* C25: each composite score of the derived frame (mc_transparency, mc_control,
\* out_risk) is the mean of the present values among its two items: the mean of
\* both, the single present value when one is missing, NaN when both are missing.
CompositeIsMeanOfPresent ==
    \A i \in 1..Len(df) :
        /\ IsMeanOfPresent(df[i].transparency1, df[i].transparency2, df[i].mc_transparency)
        /\ IsMeanOfPresent(df[i].control1, df[i].control2, df[i].mc_control)
        /\ IsMeanOfPresent(df[i].risk_traceability, df[i].risk_misuse, df[i].out_risk)

\* a derived row with one control item missing, both risk items missing and both
\* transparency items present
CompositeIsMeanOfPresentWitness ==
    /\ pc = "derived"
    /\ Len(df) = 1
    /\ df[1].control1 = NA /\ df[1].control2 = Some(6) /\ df[1].mc_control = <<6, 1>>
    /\ df[1].risk_traceability = NA /\ df[1].risk_misuse = NA /\ df[1].out_risk = NA
    /\ df[1].mc_transparency = <<9, 2>>

MappedConditions == {Some(c) : c \in DOMAIN TRANSPARENCY_MAP}

HasDataset(fs) == fs.CACHE_FILE # NA /\ ~read_csv(Val(fs.CACHE_FILE)).raised

\* the call tries to refresh and the refresh fails: the request raises, the
\* status is an error, or the body does not parse
RefreshFails(c, fs, today) ==
    /\ ~uses_cache(c.force_refresh, fs, today)
    /\ \/ requests_raises(c.response)
       \/ read_csv(c.response.content).raised

\* C28: once a dataset is cached, a fetch_csv call whose refresh fails (network
\* error, HTTP error status, unparseable body) returns the cached dataset instead
\* of raising, and leaves the cache file and the cache timestamp as they were.
FailedRefreshKeepsCache ==
    [][(/\ now' = now
        /\ call'.fn = "fetch_csv"
        /\ HasDataset(files)
        /\ RefreshFails(call', files, now))
          => /\ ret' = read_csv(Val(files.CACHE_FILE))
             /\ files' = files]_vars


\* the handlers whose call has returned a text
ReturnedText == {h \in DOMAIN handlers : handlers[h].pc = "done" /\ handlers[h].ret # NA}

\* C29: when every download_and_extract_pdf call has completed, the metadata file
\* holds an entry for every document whose text was cached, and
\* get_cached_pdf_stats counts all of them.
NoMetadataUpdateIsLost ==
    (\A h \in DOMAIN handlers : handlers[h].pc = "done") =>
        /\ \A h \in ReturnedText :
              meta_key(handlers[h].anr, handlers[h].doc_type, handlers[h].lang)
                  \in DOMAIN _load_cache_meta(files)
        /\ get_cached_pdf_stats(files).cached_documents
               = Cardinality(DOMAIN files.PDF_CACHE_DIR)


\* the vote date a result is ordered by
DateOf(x) == sort_key(x)[2]

\* C30: search_votes returns all upcoming votes (is_upcoming true) before all
\* votes that have a result, and each of the two groups by vote date descending.
UpcomingFirstNewestFirst ==
    (pc = "return" /\ call.fn = "search_votes") =>
        \A i, j \in 1..Len(ret) :
            i < j =>
                /\ ret[j].is_upcoming => ret[i].is_upcoming
                /\ (ret[i].is_upcoming = ret[j].is_upcoming)
                       => DateOf(ret[i]) >= DateOf(ret[j])

=============================================================================
